---- MODULE Spec2Model ----
(***************************************************************************)
(* Model of the porch package-revision engine (porch/pkg/engine/engine.go) *)
(* and of the rpkg reject command.                                         *)
(*                                                                         *)
(* The engine is a stateless orchestrator: every handler is one action.    *)
(* The state is the state of its collaborators (the repository's stored    *)
(* revisions and the metadata store) together with a record of the last    *)
(* engine call: its request, the collaborator calls it made in order, the  *)
(* draft it worked on, and what it returned.                               *)
(***************************************************************************)
EXTENDS Naturals, Sequences, FiniteSets, TLC

(***************************************************************************)
(* Bounds of the model.                                                    *)
(***************************************************************************)
\* longest task list of a CreatePackageRevision request
MaxTasks == 2
\* most tasks a new desired object adds beyond the stored list in UpdatePackageRevision
MaxAppend == 2
\* longest stored task list an append-update may still extend
MaxStored == 3
\* the most positional arguments of a reject command
MaxArgs == 3

(***************************************************************************)
(* Lifecycle values (api.PackageRevisionLifecycle).                        *)
(***************************************************************************)
Draft == "Draft"
Proposed == "Proposed"
Published == "Published"
Unset == ""
\* a lifecycle string that is none of the API's values
Bogus == "Bogus"
Lifecycles == {Unset, Draft, Proposed, Published, Bogus}

(***************************************************************************)
(* Package revisions are keyed by their package name.                      *)
(***************************************************************************)
PackageNames == {"net", "db"}
NoName == "-"

(***************************************************************************)
(* Tasks (api.Task): a type tag and the payload that is set, if any.       *)
(*   type    : Task.Type                                                   *)
(*   payload : which of Task.Init/Clone/Update/Patch/Edit/Eval is non-nil  *)
(*             ("" when none is)                                           *)
(*   arg     : Init.Description, Clone/Update upstream ref, Eval.Image     *)
(*   sub     : Init.Subpackage                                             *)
(*   patches : Patch.Patches, as a set (the code fills the list in map     *)
(*             iteration order); a PatchSpec's Contents is the pair        *)
(*             (from, to): it is empty exactly when from = to              *)
(***************************************************************************)
PatchSpec(f, ty, from, to) == [file |-> f, patchType |-> ty, from |-> from, to |-> to]
Task(t, p, a, s) == [type |-> t, payload |-> p, arg |-> a, sub |-> s, patches |-> {}]
NoTask == Task("", "", "", "")

TaskTypeInit == "init"
TaskTypeClone == "clone"
TaskTypeUpdate == "update"
TaskTypePatch == "patch"
TaskTypeEdit == "edit"
TaskTypeEval == "eval"

PatchTypeCreateFile == "CreateFile"
PatchTypeDeleteFile == "DeleteFile"
PatchTypePatchFile == "PatchFile"

UpstreamRefs == {"base@v1", "base@v2"}

(***************************************************************************)
(* File sets (repository.PackageResources.Contents): path -> content.      *)
(* A content is the sequence of the file's YAML documents (the pieces      *)
(* between "\n---\n" separators), each document a string.                  *)
(***************************************************************************)
Paths == {"Kptfile", "a.yaml", "b.txt"}
\* a file that is not in a file set
Absent == <<"<absent>">>
EmptyFiles == [p \in Paths |-> Absent]
present(files) == {p \in Paths : files[p] # Absent}

InitTask == Task(TaskTypeInit, "init", "user description", "sub")
CloneTask(ref) == Task(TaskTypeClone, "clone", ref, "")
UpdateTask(ref) == Task(TaskTypeUpdate, "update", ref, "")
PatchTaskOf(ps) == [Task(TaskTypePatch, "patch", "", "") EXCEPT !.patches = ps]
PatchTask == PatchTaskOf({PatchSpec("b.txt", PatchTypeCreateFile, Absent, <<"p">>)})
EditTask == Task(TaskTypeEdit, "edit", "src", "")
EvalTask(image) == Task(TaskTypeEval, "eval", image, "")
UnknownTask == Task("bogus", "", "", "")

\* the tasks a request may carry
Tasks ==
  {InitTask, PatchTask, EditTask, UnknownTask, UpdateTask("base@v2"),
   EvalTask("render"), EvalTask("fn")}
  \cup {CloneTask(r) : r \in UpstreamRefs}
  \cup {Task(t, "", "", "") : t \in {TaskTypeInit, TaskTypeClone, TaskTypeUpdate,
                            TaskTypeEdit, TaskTypeEval}}

SeqsUpTo(S, n) == UNION {[1..k -> S] : k \in 0..n}
\* the task lists of a request: every list of at most one task, and the longer
\* lists over the tasks that differ in how the pipeline treats them
TaskLists ==
  SeqsUpTo(Tasks, 1)
  \cup UNION {[1..k -> {CloneTask("base@v1"), UpdateTask("base@v2"), PatchTask,
                        EvalTask("render"), EvalTask("fn"), UnknownTask}] :
                k \in 2..MaxTasks}

(***************************************************************************)
(* Mutations (the mutation interface and its variants).                    *)
(***************************************************************************)
Mutation(k, t) == [kind |-> k, task |-> t, res |-> EmptyFiles]
RenderMutation == Mutation("render", NoTask)

(***************************************************************************)
(* The Kptfile and the fields the API projects from it.                    *)
(***************************************************************************)
GateLists == {<<>>, <<"g1">>}
CondLists == {<<>>, <<"c1">>}
\* the Kptfile's content for the given readiness gates and conditions
KptfileContent(g, c) ==
  <<"Kptfile" \o (IF g = <<>> THEN "" ELSE " readinessGates=" \o g[1])
              \o (IF c = <<>> THEN "" ELSE " conditions=" \o c[1])>>
Kptfiles == {KptfileContent(g, c) : g \in GateLists, c \in CondLists}
\* repository.PackageRevision.GetKptfile: the parsed fields
KptfileGates(content) ==
  CHOOSE g \in GateLists : \E c \in CondLists : content = KptfileContent(g, c)
KptfileConds(content) ==
  CHOOSE c \in CondLists : \E g \in GateLists : content = KptfileContent(g, c)

(***************************************************************************)
(* What the mutations that live outside engine.go do to a file set.        *)
(***************************************************************************)
Upstream(ref) ==
  [p \in Paths |-> CASE p = "Kptfile" -> IF ref = "base@v1" THEN KptfileContent(<<>>, <<>>)
                                         ELSE KptfileContent(<<"g1">>, <<>>)
                     [] p = "a.yaml" -> IF ref = "base@v1" THEN <<"obj1 # note">>
                                        ELSE <<"obj2 # torn">>
                     [] OTHER -> Absent]
Rendered(content) ==
  IF content = Absent \/ content[Len(content)] = "# rendered" THEN content
  ELSE Append(content, "# rendered")
PatchApplies(files, ps) ==
  CASE ps.patchType = PatchTypeCreateFile -> files[ps.file] = Absent
    [] ps.patchType = PatchTypeDeleteFile -> files[ps.file] # Absent
    [] OTHER -> files[ps.file] = ps.from
\* the patches of a task touch pairwise different files
ApplyPatches(files, patches) ==
  [p \in Paths |->
     IF \E ps \in patches : ps.file = p
     THEN (CHOOSE ps \in patches : ps.file = p).to
     ELSE files[p]]


(***************************************************************************)
(* healConfig: copies the comments of the old objects onto the matching    *)
(* new objects of the YAML files; other files pass through unchanged.      *)
(* It fails when a YAML file of either set does not parse. The result of   *)
(* comments.CopyComments is not read: an object whose comments cannot be   *)
(* copied stays as the client sent it.                                     *)
(***************************************************************************)
IsYaml(p) == p \in {"Kptfile", "a.yaml"}
Unparseable == "{bad"
Commented(doc) ==
  CASE doc = "obj1" -> "obj1 # note"
    [] doc = "obj2" -> "obj2 # torn"
    [] OTHER -> doc
\* comments.CopyComments answers with an error on this original
CopyCommentsFails(original) == original = "obj2 # torn"
HasCommentedOriginal(old, doc) ==
  /\ Commented(doc) # doc
  /\ \E p \in Paths : IsYaml(p) /\ old[p] # Absent
       /\ \E i \in 1..Len(old[p]) : old[p][i] = Commented(doc)
Unreadable(files) ==
  \E p \in Paths : IsYaml(p) /\ files[p] # Absent
     /\ \E i \in 1..Len(files[p]) : files[p][i] = Unparseable
\* a healConfig that returns the error of comments.CopyComments
healConfigStrict(old, new) ==
  IF Unreadable(old) \/ Unreadable(new)
  THEN [err |-> TRUE, files |-> EmptyFiles]
  ELSE IF \E p \in Paths : IsYaml(p) /\ new[p] # Absent
            /\ \E i \in 1..Len(new[p]) :
                 /\ HasCommentedOriginal(old, new[p][i])
                 /\ CopyCommentsFails(Commented(new[p][i]))
  THEN [err |-> TRUE, files |-> EmptyFiles]
  ELSE [err |-> FALSE,
        files |-> [p \in Paths |->
          IF new[p] = Absent \/ ~IsYaml(p) THEN new[p]
          ELSE [i \in 1..Len(new[p]) |->
                  IF HasCommentedOriginal(old, new[p][i])
                  THEN Commented(new[p][i]) ELSE new[p][i]]]]
healConfig(old, new) ==
  IF Unreadable(old) \/ Unreadable(new)
  THEN [err |-> TRUE, files |-> EmptyFiles]
  ELSE [err |-> FALSE,
        files |-> [p \in Paths |->
          IF new[p] = Absent \/ ~IsYaml(p) THEN new[p]
          ELSE [i \in 1..Len(new[p]) |->
                  IF /\ HasCommentedOriginal(old, new[p][i])
                     /\ ~CopyCommentsFails(Commented(new[p][i]))
                  THEN Commented(new[p][i]) ELSE new[p][i]]]]

\* GeneratePatch: the unified diff of one file
GeneratePatch(k, oldV, newV) == PatchSpec(k, PatchTypePatchFile, oldV, newV)
\* api.PatchSpec.Contents == ""
EmptyPatch(ps) == ps.from = ps.to

(***************************************************************************)
(* mutationReplaceResources.Apply                                          *)
(***************************************************************************)
CreatedPatches(old, new) ==
  {PatchSpec(k, PatchTypeCreateFile, Absent, new[k]) :
     k \in {k \in present(new) : k \notin present(old)}}
\* a patch for every file of both sets, changed or not
ChangedPatchesOfEveryShared(old, new) ==
  {GeneratePatch(k, old[k], new[k]) :
     k \in {k \in present(new) : k \in present(old)}}
ChangedPatches(old, new) ==
  {GeneratePatch(k, old[k], new[k]) :
     k \in {k \in present(new) : k \in present(old) /\ new[k] # old[k]}}
DeletedPatches(old, new) ==
  {PatchSpec(k, PatchTypeDeleteFile, Absent, Absent) :
     k \in {k \in present(old) : k \notin present(new)}}
ReplaceResourcesApply(m, resources) ==
  LET old == resources
      healed == healConfig(old, m.res)
      new == healed.files
  IN IF healed.err
     THEN [err |-> TRUE, files |-> EmptyFiles, task |-> NoTask]
     ELSE [err |-> FALSE, files |-> new,
           task |-> PatchTaskOf(CreatedPatches(old, new) \cup ChangedPatches(old, new)
                                  \cup DeletedPatches(old, new))]

(***************************************************************************)
(* mutation.Apply for every variant: the new file set and the audit task.  *)
(***************************************************************************)
RenderAuditTask == EvalTask("render")
ExternalApply(m, files) ==
  CASE m.kind = "init" ->
         [err |-> FALSE, task |-> m.task,
          files |-> [EmptyFiles EXCEPT !["Kptfile"] = KptfileContent(<<>>, <<>>)]]
    [] m.kind = "clone" ->
         [err |-> FALSE, task |-> m.task, files |-> Upstream(m.task.arg)]
    [] m.kind = "patch" ->
         IF \A ps \in m.task.patches : PatchApplies(files, ps)
         THEN [err |-> FALSE, task |-> m.task, files |-> ApplyPatches(files, m.task.patches)]
         ELSE [err |-> TRUE, task |-> NoTask, files |-> EmptyFiles]
    [] m.kind = "edit" ->
         [err |-> FALSE, task |-> m.task, files |-> [files EXCEPT !["a.yaml"] = <<"edited">>]]
    [] m.kind = "eval" ->
         [err |-> FALSE, task |-> m.task, files |-> [files EXCEPT !["b.txt"] = <<"fn output">>]]
    [] m.kind = "render" ->
         [err |-> FALSE, task |-> RenderAuditTask,
          files |-> [files EXCEPT !["a.yaml"] = Rendered(@)]]
\* updatePackageMutation.Apply: the three-way merge takes the target upstream's content
UpdateApply(m, files) ==
  [err |-> FALSE, task |-> m.task,
   files |-> [files EXCEPT !["a.yaml"] = Upstream(m.task.arg)["a.yaml"]]]
Apply(m, files) ==
  CASE m.kind = "replace" -> ReplaceResourcesApply(m, files)
    [] m.kind = "update" -> UpdateApply(m, files)
    [] OTHER -> ExternalApply(m, files)

(***************************************************************************)
(* Collaborator calls. A handler's run is the sequence of the calls it     *)
(* makes on its collaborators, each with the arguments the engine passed   *)
(* and whether the collaborator answered without error.                    *)
(***************************************************************************)
Call(op, name) ==
  [op |-> op, ok |-> TRUE, name |-> name, kind |-> "", task |-> NoTask,
   input |-> EmptyFiles, files |-> EmptyFiles, lifecycle |-> Unset,
   labels |-> "", annotations |-> ""]
ApplyCall(name, m, in) ==
  [Call("mutation.Apply", name) EXCEPT !.kind = m.kind, !.task = m.task, !.input = in]
UpdateResourcesCall(name, m, applied) ==
  [Call("draft.UpdateResources", name) EXCEPT
     !.kind = m.kind, !.task = applied.task, !.files = applied.files]
UpdateLifecycleCall(name, lc) ==
  [Call("draft.UpdateLifecycle", name) EXCEPT !.lifecycle = lc]
MetaCall(op, name, obj) ==
  [Call(op, name) EXCEPT !.labels = obj.labels, !.annotations = obj.annotations]
Failed(c) == [c EXCEPT !.ok = FALSE]

\* what a handler returns: an error, or a PackageRevision (the repository's
\* revision handle and the metadata record it is paired with)
NoRet == [rev |-> NoName, hasMeta |-> FALSE, labels |-> "", annotations |-> ""]
RetWithMeta(name, obj) ==
  [rev |-> name, hasMeta |-> TRUE, labels |-> obj.labels, annotations |-> obj.annotations]
RetWithoutMeta(name) == [NoRet EXCEPT !.rev = name]
Outcome(calls, err, ret) == [calls |-> calls, err |-> err, ret |-> ret]
NoError == ""

(***************************************************************************)
(* findCloneTask                                                           *)
(***************************************************************************)
\* the first task taken for the clone task whatever its type
findFirstTask(tasks) ==
  IF Len(tasks) = 0 THEN NoTask ELSE tasks[1]
findCloneTask(tasks) ==
  IF Len(tasks) = 0 THEN NoTask
  ELSE IF tasks[1].type = TaskTypeClone THEN tasks[1] ELSE NoTask

(***************************************************************************)
(* cadEngine.mapTaskToMutation                                             *)
(***************************************************************************)
Mapped(m) == [err |-> NoError, mut |-> m]
MapError(msg) == [err |-> msg, mut |-> RenderMutation]
EvalMutation(task) ==
  IF task.arg = "render" THEN RenderMutation ELSE Mutation("eval", task)
\* a mapping that does not look for the Clone task of an Update task
mapTaskWithoutCloneCheck(obj, task) ==
  CASE task.type = TaskTypeInit ->
         IF task.payload # "init" THEN MapError("init not set") ELSE Mapped(Mutation("init", task))
    [] task.type = TaskTypeClone ->
         IF task.payload # "clone" THEN MapError("clone not set") ELSE Mapped(Mutation("clone", task))
    [] task.type = TaskTypeUpdate ->
         IF task.payload # "update" THEN MapError("update not set")
         ELSE Mapped(Mutation("update", task))
    [] task.type = TaskTypePatch -> Mapped(Mutation("patch", task))
    [] task.type = TaskTypeEdit ->
         IF task.payload # "edit" THEN MapError("edit not set") ELSE Mapped(Mutation("edit", task))
    [] task.type = TaskTypeEval ->
         IF task.payload # "eval" THEN MapError("eval not set") ELSE Mapped(EvalMutation(task))
    [] OTHER -> MapError("task type not supported")
mapTaskToMutation(obj, task) ==
  CASE task.type = TaskTypeInit ->
         IF task.payload # "init" THEN MapError("init not set") ELSE Mapped(Mutation("init", task))
    [] task.type = TaskTypeClone ->
         IF task.payload # "clone" THEN MapError("clone not set") ELSE Mapped(Mutation("clone", task))
    [] task.type = TaskTypeUpdate ->
         IF task.payload # "update" THEN MapError("update not set")
         ELSE IF findCloneTask(obj.tasks) = NoTask THEN MapError("upstream source not found")
         ELSE Mapped(Mutation("update", task))
    [] task.type = TaskTypePatch -> Mapped(Mutation("patch", task))
    [] task.type = TaskTypeEdit ->
         IF task.payload # "edit" THEN MapError("edit not set") ELSE Mapped(Mutation("edit", task))
    [] task.type = TaskTypeEval ->
         IF task.payload # "eval" THEN MapError("eval not set") ELSE Mapped(EvalMutation(task))
    [] OTHER -> MapError("task type not supported")

(***************************************************************************)
(* cadEngine.conditionalAddRender                                          *)
(***************************************************************************)
\* a Render appended whatever the last mutation is
alwaysAddRender(mutations) ==
  IF Len(mutations) = 0 THEN mutations ELSE Append(mutations, RenderMutation)
conditionalAddRender(mutations) ==
  IF Len(mutations) = 0 THEN mutations
  ELSE IF mutations[Len(mutations)].kind = "render" THEN mutations
  ELSE Append(mutations, RenderMutation)

(***************************************************************************)
(* applyResourceMutations: the calls it makes on the mutations and on the  *)
(* draft, up to and including an Apply that fails on its input.            *)
(***************************************************************************)
\* The merge-key step at the end of updatePackageMutation.Apply is recorded
\* behind the Apply call it is part of.
RECURSIVE applyResourceMutations(_, _, _)
applyResourceMutations(name, baseResources, mutations) ==
  IF mutations = <<>> THEN [calls |-> <<>>, err |-> NoError]
  ELSE LET m == Head(mutations)
           applied == Apply(m, baseResources)
       IN IF applied.err
          THEN [calls |-> <<Failed(ApplyCall(name, m, baseResources))>>,
                err |-> "mutation failed"]
          ELSE LET rest == applyResourceMutations(name, applied.files, Tail(mutations))
               IN [calls |-> <<ApplyCall(name, m, baseResources)>> \o
                               (IF m.kind = "update"
                                THEN <<Call("ensureMergeKey", name)>> ELSE <<>>)
                               \o <<UpdateResourcesCall(name, m, applied)>> \o rest.calls,
                   err |-> rest.err]

(***************************************************************************)
(* cadEngine.applyTasks                                                    *)
(***************************************************************************)
AutoInitMutation(obj) ==
  Mutation("init", [NoTask EXCEPT !.payload = "init",
                                  !.arg = obj.name \o " description", !.sub = ""])
\* an Init inserted only for an empty task list
NeedsInitOnlyWhenEmpty(tasks) == Len(tasks) = 0
NeedsInit(tasks) ==
  Len(tasks) = 0 \/ (tasks[1].type # TaskTypeInit /\ tasks[1].type # TaskTypeClone)
\* the loop over the tasks: the mutations mapped so far, or the first error
RECURSIVE mapTasks(_, _, _)
mapTasks(obj, i, acc) ==
  IF i > Len(obj.tasks) THEN [err |-> NoError, muts |-> acc]
  ELSE LET r == mapTaskToMutation(obj, obj.tasks[i])
       IN IF r.err # NoError THEN [err |-> r.err, muts |-> acc]
          ELSE mapTasks(obj, i + 1, Append(acc, r.mut))
TaskMutations(obj) ==
  mapTasks(obj, 1, IF NeedsInit(obj.tasks) THEN <<AutoInitMutation(obj)>> ELSE <<>>)
\* a pipeline that starts on the files of an upstream package
applyTasksOnUpstream(obj) ==
  LET mapped == TaskMutations(obj)
  IN IF mapped.err # NoError THEN [calls |-> <<>>, err |-> mapped.err]
     ELSE applyResourceMutations(obj.name, Upstream("base@v1"),
                                 conditionalAddRender(mapped.muts))
applyTasks(obj) ==
  LET mapped == TaskMutations(obj)
  IN IF mapped.err # NoError THEN [calls |-> <<>>, err |-> mapped.err]
     ELSE applyResourceMutations(obj.name, EmptyFiles, conditionalAddRender(mapped.muts))

(***************************************************************************)
(* ExtractContextConfigMap and buildPackageConfig                          *)
(***************************************************************************)
ContextPaths == {"", "foo/bar"}
\* a ConfigMap document named builtins.PkgContextName with the given package-path
ContextDoc(pp) == "ConfigMap kptfile.kpt.dev package-path=" \o pp
ContextDocs == {ContextDoc(pp) : pp \in ContextPaths}
PackagePathOf(doc) == CHOOSE pp \in ContextPaths : doc = ContextDoc(pp)
isWhitespace(doc) == doc \in {"", " "}
\* path.Ext(itemPath), lower-cased, is ".yaml" or ".yml"
HasYamlExt(p) == p \in {"a.yaml"}
ParsedDocs(resources) ==
  UNION {{<<p, i>> : i \in {i \in 1..Len(resources[p]) : ~isWhitespace(resources[p][i])}} :
           p \in {p \in present(resources) : HasYamlExt(p)}}
\* an extraction that takes one of several matching ConfigMaps
ExtractAnyContextConfigMap(resources) ==
  LET docs == ParsedDocs(resources)
      matches == {d \in docs : resources[d[1]][d[2]] \in ContextDocs}
  IN IF \E d \in docs : resources[d[1]][d[2]] = Unparseable
     THEN [err |-> "error parsing yaml", found |-> FALSE, doc |-> ""]
     ELSE IF matches = {} THEN [err |-> NoError, found |-> FALSE, doc |-> ""]
     ELSE LET d == CHOOSE d \in matches : TRUE
          IN [err |-> NoError, found |-> TRUE, doc |-> resources[d[1]][d[2]]]
ExtractContextConfigMap(resources) ==
  LET docs == ParsedDocs(resources)
      matches == {d \in docs : resources[d[1]][d[2]] \in ContextDocs}
  IN IF \E d \in docs : resources[d[1]][d[2]] = Unparseable
     THEN [err |-> "error parsing yaml", found |-> FALSE, doc |-> ""]
     ELSE IF matches = {} THEN [err |-> NoError, found |-> FALSE, doc |-> ""]
     ELSE IF Cardinality(matches) > 1
     THEN [err |-> "found multiple configmaps", found |-> FALSE, doc |-> ""]
     ELSE LET d == CHOOSE d \in matches : TRUE
          IN [err |-> NoError, found |-> TRUE, doc |-> resources[d[1]][d[2]]]

\* a parent handed to the engine: the stored revision behind it
NoParent == [given |-> FALSE, name |-> NoName, files |-> EmptyFiles]
\* a parent path that leaves out the parent's own package-path
ParentPathNameOnly(parent, cm) == parent.name
ParentPath(parent, cm) ==
  IF cm.found /\ PackagePathOf(cm.doc) # ""
  THEN PackagePathOf(cm.doc) \o "/" \o parent.name
  ELSE parent.name
PackagePath(parentPath, packageName) ==
  IF parentPath = "" THEN packageName ELSE parentPath \o "/" \o packageName
buildPackageConfig(obj, parent) ==
  IF ~parent.given
  THEN [calls |-> <<>>, err |-> NoError, path |-> PackagePath("", obj.name)]
  ELSE LET calls == <<Call("parent.GetPackageRevision", parent.name),
                      Call("parent.GetResources", parent.name)>>
           cm == ExtractContextConfigMap(parent.files)
       IN IF cm.err # NoError
          THEN [calls |-> calls, err |-> cm.err, path |-> ""]
          ELSE [calls |-> calls, err |-> NoError,
                path |-> PackagePath(ParentPath(parent, cm), obj.name)]

(***************************************************************************)
(* cadEngine.CreatePackageRevision: the calls of a run in which no         *)
(* collaborator fails, and what the run returns.                           *)
(***************************************************************************)
\* a lifecycle check that lets Published through
CreateLifecycleAcceptsPublished(lifecycle) ==
  CASE lifecycle = Unset -> [err |-> NoError, lifecycle |-> Draft]
    [] lifecycle \in {Draft, Proposed, Published} -> [err |-> NoError, lifecycle |-> lifecycle]
    [] OTHER -> [err |-> "unsupported lifecycle value", lifecycle |-> lifecycle]
CreateLifecycle(lifecycle) ==
  CASE lifecycle = Unset -> [err |-> NoError, lifecycle |-> Draft]
    [] lifecycle \in {Draft, Proposed} -> [err |-> NoError, lifecycle |-> lifecycle]
    [] lifecycle = Published ->
         [err |-> "cannot create a package revision with lifecycle value 'Final'",
          lifecycle |-> lifecycle]
    [] OTHER -> [err |-> "unsupported lifecycle value", lifecycle |-> lifecycle]
CreatePlan(o, parent) ==
  LET cfg == buildPackageConfig(o, parent)
      lc == CreateLifecycle(o.lifecycle)
      obj == [o EXCEPT !.lifecycle = lc.lifecycle]
      opened == cfg.calls \o <<Call("cache.OpenRepository", obj.name),
                               Call("repo.CreatePackageRevision", obj.name)>>
      applied == applyTasks(obj)
  IN IF cfg.err # NoError THEN Outcome(cfg.calls, cfg.err, NoRet)
     ELSE IF lc.err # NoError THEN Outcome(cfg.calls, lc.err, NoRet)
     ELSE IF applied.err # NoError THEN Outcome(opened \o applied.calls, applied.err, NoRet)
     ELSE Outcome(opened \o applied.calls \o
                    <<UpdateLifecycleCall(obj.name, obj.lifecycle),
                      Call("draft.Close", obj.name),
                      MetaCall("metadataStore.Create", obj.name, obj)>>,
                  NoError, RetWithMeta(obj.name, obj))

(***************************************************************************)
(* isRecloneAndReplay and cadEngine.recloneAndReplay                       *)
(***************************************************************************)
\* a reclone decided without comparing the two Clone tasks
isRecloneOfAnyClone(oldObj, newObj) ==
  IF Len(oldObj.tasks) = 0 \/ Len(newObj.tasks) = 0 THEN FALSE
  ELSE IF oldObj.tasks[1].type # TaskTypeClone \/ newObj.tasks[1].type # TaskTypeClone
  THEN FALSE
  ELSE TRUE
isRecloneAndReplay(oldObj, newObj) ==
  IF Len(oldObj.tasks) = 0 \/ Len(newObj.tasks) = 0 THEN FALSE
  ELSE IF oldObj.tasks[1].type # TaskTypeClone \/ newObj.tasks[1].type # TaskTypeClone
  THEN FALSE
  ELSE IF oldObj.tasks[1] = newObj.tasks[1] THEN FALSE
  ELSE TRUE
\* a replay that closes the draft before it sets the lifecycle
recloneAndReplayCloseFirst(newObj) ==
  LET created == <<Call("repo.CreatePackageRevision", newObj.name)>>
      applied == applyTasks(newObj)
  IN IF applied.err # NoError
     THEN Outcome(created \o applied.calls, applied.err, NoRet)
     ELSE Outcome(created \o applied.calls \o
                    <<Call("draft.Close", newObj.name),
                      UpdateLifecycleCall(newObj.name, newObj.lifecycle)>>,
                  NoError, RetWithoutMeta(newObj.name))
recloneAndReplay(newObj) ==
  LET created == <<Call("repo.CreatePackageRevision", newObj.name)>>
      applied == applyTasks(newObj)
  IN IF applied.err # NoError
     THEN Outcome(created \o applied.calls, applied.err, NoRet)
     ELSE Outcome(created \o applied.calls \o
                    <<UpdateLifecycleCall(newObj.name, newObj.lifecycle),
                      Call("draft.Close", newObj.name)>>,
                  NoError, RetWithoutMeta(newObj.name))

(***************************************************************************)
(* createKptfilePatchTask                                                  *)
(***************************************************************************)
createKptfilePatchTask(kptfile, newObj) ==
  LET gates == IF Len(newObj.gates) > 0 THEN newObj.gates ELSE KptfileGates(kptfile)
      conds == IF Len(newObj.conds) > 0 THEN newObj.conds ELSE KptfileConds(kptfile)
      patchSpec == GeneratePatch("Kptfile", kptfile, KptfileContent(gates, conds))
  IN IF EmptyPatch(patchSpec) THEN [created |-> FALSE, task |-> NoTask]
     ELSE [created |-> TRUE, task |-> PatchTaskOf({patchSpec})]

(***************************************************************************)
(* cadEngine.UpdatePackageRevision                                         *)
(***************************************************************************)
\* the checks of the task lists of an update in place, and the mutation of
\* the appended task; first, the checks without the limit of one appended task
AppendedMutationsAnyLength(oldObj, newObj) ==
  LET nOld == Len(oldObj.tasks)
      nNew == Len(newObj.tasks)
      newTask == newObj.tasks[nNew]
  IN IF nOld > nNew THEN [err |-> "removing tasks is not yet supported", muts |-> <<>>]
     ELSE IF \E i \in 1..nOld : oldObj.tasks[i].type # newObj.tasks[i].type
     THEN [err |-> "changing task types is not yet supported", muts |-> <<>>]
     ELSE IF nNew = nOld THEN [err |-> NoError, muts |-> <<>>]
     ELSE IF newTask.type # TaskTypeUpdate
     THEN [err |-> "appended task must be type update", muts |-> <<>>]
     ELSE IF newTask.payload # "update"
     THEN [err |-> "update not set for updateTask", muts |-> <<>>]
     ELSE IF findCloneTask(oldObj.tasks) = NoTask
     THEN [err |-> "upstream source not found", muts |-> <<>>]
     ELSE [err |-> NoError, muts |-> <<Mutation("update", newTask)>>]
AppendedMutations(oldObj, newObj) ==
  LET nOld == Len(oldObj.tasks)
      nNew == Len(newObj.tasks)
      newTask == newObj.tasks[nNew]
  IN IF nOld > nNew THEN [err |-> "removing tasks is not yet supported", muts |-> <<>>]
     ELSE IF \E i \in 1..nOld : oldObj.tasks[i].type # newObj.tasks[i].type
     THEN [err |-> "changing task types is not yet supported", muts |-> <<>>]
     ELSE IF nNew = nOld THEN [err |-> NoError, muts |-> <<>>]
     ELSE IF nNew > nOld + 1
     THEN [err |-> "can only append one task at a time", muts |-> <<>>]
     ELSE IF newTask.type # TaskTypeUpdate
     THEN [err |-> "appended task must be type update", muts |-> <<>>]
     ELSE IF newTask.payload # "update"
     THEN [err |-> "update not set for updateTask", muts |-> <<>>]
     ELSE IF findCloneTask(oldObj.tasks) = NoTask
     THEN [err |-> "upstream source not found", muts |-> <<>>]
     ELSE [err |-> NoError, muts |-> <<Mutation("update", newTask)>>]
\* the mutation list of an update in place
\* first, a Render put behind the list even when the list is empty
UpdateMutationsAlwaysRendered(appended, kf) ==
  LET mutations == conditionalAddRender(appended)
      patched == IF kf.created THEN Append(mutations, Mutation("patch", kf.task))
                 ELSE mutations
  IN IF patched = <<>> THEN <<RenderMutation>> ELSE conditionalAddRender(patched)
UpdateMutations(appended, kf) ==
  LET mutations == conditionalAddRender(appended)
  IN conditionalAddRender(IF kf.created
                          THEN Append(mutations, Mutation("patch", kf.task))
                          ELSE mutations)
\* the old lifecycle decides whether the content is touched; first, the
\* content touched for every lifecycle that reaches the update in place
UpdatesContentsAlways(oldObj) == oldObj.lifecycle \in {Draft, Proposed}
UpdatesContents(oldObj) == oldObj.lifecycle = Draft
\* a Published revision updated like a Draft: through a draft
PublishedUpdateOpensDraft(oldObj, newObj) ==
  Outcome(<<Call("cache.OpenRepository", oldObj.name),
            Call("repo.UpdatePackageRevision", oldObj.name),
            UpdateLifecycleCall(oldObj.name, newObj.lifecycle),
            Call("draft.Close", oldObj.name),
            MetaCall("metadataStore.Update", oldObj.name, newObj)>>,
          NoError, RetWithMeta(oldObj.name, newObj))
PublishedUpdate(oldObj, newObj) ==
  Outcome(<<Call("cache.OpenRepository", oldObj.name),
            MetaCall("metadataStore.Update", oldObj.name, newObj)>>,
          NoError, RetWithMeta(oldObj.name, newObj))
AppendUpdate(oldObj, newObj, stored) ==
  LET name == oldObj.name
      open == <<Call("cache.OpenRepository", name)>>
      appended == AppendedMutations(oldObj, newObj)
      opened == Append(open, Call("repo.UpdatePackageRevision", name))
      kfCall == Call("oldPackage.GetKptfile", name)
      kf == createKptfilePatchTask(stored.files["Kptfile"], newObj)
      mutations == UpdateMutations(appended.muts, kf)
      applied == IF UpdatesContents(oldObj)
                 THEN LET r == applyResourceMutations(name, stored.files, mutations)
                      IN [calls |-> <<Call("oldPackage.GetResources", name)>> \o r.calls,
                          err |-> r.err]
                 ELSE [calls |-> <<>>, err |-> NoError]
  IN IF appended.err # NoError THEN Outcome(open, appended.err, NoRet)
     ELSE IF stored.files["Kptfile"] \notin Kptfiles
     THEN Outcome(Append(opened, Failed(kfCall)), "cannot read Kptfile", NoRet)
     ELSE IF applied.err # NoError
     THEN Outcome(Append(opened, kfCall) \o applied.calls, applied.err, NoRet)
     ELSE Outcome(Append(opened, kfCall) \o applied.calls \o
                    <<UpdateLifecycleCall(name, newObj.lifecycle),
                      Call("draft.Close", name),
                      MetaCall("metadataStore.Update", name, newObj)>>,
                  NoError, RetWithMeta(name, newObj))
\* an update that does not look at the desired lifecycle
UpdatePlanAnyDesiredLifecycle(oldObj, newObj, stored, parent) ==
  LET open == <<Call("cache.OpenRepository", oldObj.name)>>
      cfg == buildPackageConfig(newObj, parent)
      replay == recloneAndReplay(newObj)
  IN IF oldObj.lifecycle \notin {Draft, Proposed, Published}
     THEN Outcome(open, "invalid original lifecycle value", NoRet)
     ELSE IF oldObj.lifecycle = Published THEN PublishedUpdate(oldObj, newObj)
     ELSE IF isRecloneAndReplay(oldObj, newObj)
     THEN IF cfg.err # NoError THEN Outcome(open \o cfg.calls, cfg.err, NoRet)
          ELSE Outcome(open \o cfg.calls \o replay.calls, replay.err, replay.ret)
     ELSE AppendUpdate(oldObj, newObj, stored)
UpdatePlan(oldObj, newObj, stored, parent) ==
  LET open == <<Call("cache.OpenRepository", oldObj.name)>>
      cfg == buildPackageConfig(newObj, parent)
      replay == recloneAndReplay(newObj)
  IN IF oldObj.lifecycle \notin {Draft, Proposed, Published}
     THEN Outcome(open, "invalid original lifecycle value", NoRet)
     ELSE IF oldObj.lifecycle = Published THEN PublishedUpdate(oldObj, newObj)
     ELSE IF newObj.lifecycle \notin {Draft, Proposed, Published}
     THEN Outcome(open, "invalid desired lifecycle value", NoRet)
     ELSE IF isRecloneAndReplay(oldObj, newObj)
     THEN IF cfg.err # NoError THEN Outcome(open \o cfg.calls, cfg.err, NoRet)
          ELSE Outcome(open \o cfg.calls \o replay.calls, replay.err, replay.ret)
     ELSE AppendUpdate(oldObj, newObj, stored)

(***************************************************************************)
(* cadEngine.UpdatePackageResources                                        *)
(***************************************************************************)
\* a lifecycle check that lets a Proposed revision through
ResourcesLifecycleAcceptsProposed(lifecycle) ==
  CASE lifecycle \in {Draft, Proposed} -> NoError
    [] lifecycle = Published ->
         "cannot update a package revision; package must be Draft"
    [] OTHER -> "invalid original lifecycle value"
ResourcesLifecycle(lifecycle) ==
  CASE lifecycle = Draft -> NoError
    [] lifecycle \in {Proposed, Published} ->
         "cannot update a package revision; package must be Draft"
    [] OTHER -> "invalid original lifecycle value"
\* a replacement of the resources that also proposes the revision
UpdateResourcesPlanProposing(name, stored, new) ==
  LET got == <<Call("oldPackage.GetPackageRevision", name)>>
      opened == got \o <<Call("cache.OpenRepository", name),
                          Call("repo.UpdatePackageRevision", name),
                          Call("oldPackage.GetResources", name)>>
      mutations == <<[Mutation("replace", NoTask) EXCEPT !.res = new], RenderMutation>>
      applied == applyResourceMutations(name, stored.files, mutations)
  IN IF ResourcesLifecycle(stored.lifecycle) # NoError
     THEN Outcome(got, ResourcesLifecycle(stored.lifecycle), NoRet)
     ELSE IF applied.err # NoError
     THEN Outcome(opened \o applied.calls, applied.err, NoRet)
     ELSE Outcome(opened \o applied.calls \o
                    <<UpdateLifecycleCall(name, Proposed), Call("draft.Close", name)>>,
                  NoError, RetWithoutMeta(name))
UpdateResourcesPlan(name, stored, new) ==
  LET got == <<Call("oldPackage.GetPackageRevision", name)>>
      opened == got \o <<Call("cache.OpenRepository", name),
                          Call("repo.UpdatePackageRevision", name),
                          Call("oldPackage.GetResources", name)>>
      mutations == <<[Mutation("replace", NoTask) EXCEPT !.res = new], RenderMutation>>
      applied == applyResourceMutations(name, stored.files, mutations)
  IN IF ResourcesLifecycle(stored.lifecycle) # NoError
     THEN Outcome(got, ResourcesLifecycle(stored.lifecycle), NoRet)
     ELSE IF applied.err # NoError
     THEN Outcome(opened \o applied.calls, applied.err, NoRet)
     ELSE Outcome(opened \o applied.calls \o <<Call("draft.Close", name)>>,
                  NoError, RetWithoutMeta(name))

(***************************************************************************)
(* cadEngine.DeletePackageRevision                                         *)
(***************************************************************************)
\* a deletion that removes the record first
DeletePlanRecordFirst(name) ==
  Outcome(<<Call("cache.OpenRepository", name),
            Call("metadataStore.Delete", name),
            Call("repo.DeletePackageRevision", name)>>, NoError, NoRet)
DeletePlan(name) ==
  Outcome(<<Call("cache.OpenRepository", name),
            Call("repo.DeletePackageRevision", name),
            Call("metadataStore.Delete", name)>>, NoError, NoRet)

(***************************************************************************)
(* cadEngine.ListPackageRevisions                                          *)
(***************************************************************************)
\* the order in which the repository lists its revisions
NameOrder == <<"db", "net">>
GetCall(name, record) ==
  [Call("metadataStore.Get", name) EXCEPT
     !.kind = IF record.exists THEN "found" ELSE "not found",
     !.labels = record.labels, !.annotations = record.annotations]
RECURSIVE GetCalls(_, _)
GetCalls(names, records) ==
  IF names = <<>> THEN <<>>
  ELSE <<GetCall(Head(names), records[Head(names)])>> \o GetCalls(Tail(names), records)
\* the loop over pkgRevs: a revision without a record is skipped; first, a
\* loop that returns the revision without a record too
IsReturnedAlways(c) == c.op = "metadataStore.Get"
IsReturned(c) == c.op = "metadataStore.Get" /\ c.kind # "not found"
RECURSIVE PairUp(_)
PairUp(cs) ==
  IF cs = <<>> THEN <<>>
  ELSE IF IsReturned(Head(cs))
  THEN <<RetWithMeta(Head(cs).name, Head(cs))>> \o PairUp(Tail(cs))
  ELSE PairUp(Tail(cs))
ListPlan(pkgRevs, records) ==
  Outcome(<<Call("cache.OpenRepository", NoName),
            Call("repo.ListPackageRevisions", NoName)>> \o GetCalls(pkgRevs, records),
          NoError, NoRet)

(***************************************************************************)
(* A run in which the collaborator call number `fail` answers with an      *)
(* error (0: none does). The engine returns the error of the first call    *)
(* that fails, except where it discards the error.                         *)
(***************************************************************************)
\* calls whose error the engine does not return (not read, or only
\* logged); first, with the error of
\* draft.Close not looked at either
DiscardedWithClose(c) == c.op \in {"metadataStore.Update", "ensureMergeKey", "draft.Close"}
Discarded(c) == c.op \in {"metadataStore.Update", "ensureMergeKey"}
\* a run that goes on after the call that failed
RunPastFailure(plan, fail) ==
  IF fail = 0 \/ fail > Len(plan.calls) \/ ~plan.calls[fail].ok THEN plan
  ELSE [plan EXCEPT !.calls[fail] = Failed(@)]
Run(plan, fail) ==
  IF fail = 0 \/ fail > Len(plan.calls) \/ ~plan.calls[fail].ok THEN plan
  ELSE IF Discarded(plan.calls[fail])
  THEN [plan EXCEPT !.calls[fail] = Failed(@)]
  ELSE Outcome(Append(SubSeq(plan.calls, 1, fail - 1), Failed(plan.calls[fail])),
               "collaborator error", NoRet)

(***************************************************************************)
(* The collaborators: the repository with its drafts, and the metadata     *)
(* store. A call that answered with an error changed nothing.              *)
(***************************************************************************)
NoRev == [exists |-> FALSE, lifecycle |-> Unset, tasks |-> <<>>, files |-> EmptyFiles]
NoMeta == [exists |-> FALSE, labels |-> "", annotations |-> ""]
NoDraft == [state |-> "none", name |-> NoName, lifecycle |-> Unset, tasks |-> <<>>,
            files |-> EmptyFiles]
Effect(c, st) ==
  CASE ~c.ok -> st
    [] c.op = "repo.CreatePackageRevision" ->
         [st EXCEPT !.draft = [state |-> "open", name |-> c.name, lifecycle |-> Draft,
                               tasks |-> <<>>, files |-> EmptyFiles]]
    [] c.op = "repo.UpdatePackageRevision" ->
         [st EXCEPT !.draft = [state |-> "open", name |-> c.name,
                               lifecycle |-> st.repo[c.name].lifecycle,
                               tasks |-> st.repo[c.name].tasks,
                               files |-> st.repo[c.name].files]]
    [] c.op = "draft.UpdateResources" ->
         [st EXCEPT !.draft.tasks = Append(@, c.task), !.draft.files = c.files]
    [] c.op = "draft.UpdateLifecycle" ->
         [st EXCEPT !.draft.lifecycle = c.lifecycle]
    [] c.op = "draft.Close" ->
         [st EXCEPT !.draft.state = "closed",
                    !.repo[c.name] = [exists |-> TRUE, lifecycle |-> st.draft.lifecycle,
                                      tasks |-> st.draft.tasks, files |-> st.draft.files]]
    [] c.op = "repo.DeletePackageRevision" ->
         [st EXCEPT !.repo[c.name] = NoRev]
    [] c.op = "metadataStore.Create" ->
         [st EXCEPT !.meta[c.name] = [exists |-> TRUE, labels |-> c.labels,
                                      annotations |-> c.annotations]]
    [] c.op = "metadataStore.Update" ->
         IF st.meta[c.name].exists
         THEN [st EXCEPT !.meta[c.name] = [exists |-> TRUE, labels |-> c.labels,
                                           annotations |-> c.annotations]]
         ELSE st
    [] c.op = "metadataStore.Delete" ->
         [st EXCEPT !.meta[c.name] = NoMeta]
    [] OTHER -> st
RECURSIVE Effects(_, _, _)
Effects(cs, i, st) ==
  IF i > Len(cs) THEN st ELSE Effects(cs, i + 1, Effect(cs[i], st))

(***************************************************************************)
(* State.                                                                  *)
(***************************************************************************)
VARIABLES
  repo,       \* the repository: package name -> stored revision
  metaStore,  \* the metadata store: package name -> record
  req,        \* the last engine call's request
  calls,      \* the collaborator calls it made, in order
  draft,      \* the draft it worked on, as it left it
  result,     \* what it returned
  before,     \* the repository and the metadata store as the call found them
  held,       \* a PackageRevision the API layer holds: the repository's
              \* revision (flagged latest or not) and its metadata record
  shown,      \* the API object GetPackageRevision last made of it
  cli         \* a run of the reject command: its arguments, how far it got,
              \* the requests it sent and what it returned

vars == <<repo, metaStore, req, calls, draft, result, before, held, shown, cli>>

(***************************************************************************)
(* Label maps. A Go map is a reference: two fields assigned the same map   *)
(* share its entries. A nil map has no entries and cannot be written.      *)
(***************************************************************************)
LatestPackageRevisionKey == "kpt.dev/latest-revision"
Labels(isNil, keys) == [isNil |-> isNil, keys |-> keys]
NilLabels == Labels(TRUE, {})
Handle(labels, annotations, latest) ==
  [labels |-> labels, annotations |-> annotations, latest |-> latest]
NoHandle == Handle(NilLabels, "", FALSE)
NoShown == [done |-> FALSE, record |-> NoHandle, labels |-> NilLabels, annotations |-> ""]

\* a run of the reject command that has not started
Started(args, canConnect) ==
  [phase |-> "start", args |-> args, canConnect |-> canConnect, hasClient |-> FALSE,
   sent |-> <<>>, messages |-> <<>>, err |-> ""]

Request(op, name) ==
  [op |-> op, name |-> name, lifecycle |-> Unset, tasks |-> <<>>, labels |-> "",
   annotations |-> "", gates |-> <<>>, conds |-> <<>>, parent |-> NoName,
   res |-> EmptyFiles, fail |-> 0]
NoRequest == Request("none", NoName)
Result(out) == [err |-> out.err, ret |-> out.ret, list |-> <<>>, config |-> ""]
NoResult == Result(Outcome(<<>>, NoError, NoRet))

NoStores == [repo |-> [n \in PackageNames |-> NoRev],
             meta |-> [n \in PackageNames |-> NoMeta]]

Init ==
  /\ repo = [n \in PackageNames |-> NoRev]
  /\ metaStore = [n \in PackageNames |-> NoMeta]
  /\ req = NoRequest
  /\ calls = <<>>
  /\ draft = NoDraft
  /\ result = NoResult
  /\ before = NoStores
  /\ held = NoHandle
  /\ shown = NoShown
  /\ cli = Started(<<>>, FALSE)

\* no engine call is being looked at
Idle == req.op = "none"

\* the state after a handler's run
Perform(r, out) ==
  LET st == Effects(out.calls, 1, [repo |-> repo, meta |-> metaStore, draft |-> NoDraft])
  IN /\ req' = r
     /\ calls' = out.calls
     /\ repo' = st.repo
     /\ metaStore' = st.meta
     /\ draft' = st.draft
     /\ before' = [repo |-> repo, meta |-> metaStore]
     /\ UNCHANGED <<held, shown, cli>>

\* the revisions the engine hands out: those ListPackageRevisions returns
Listed == {n \in PackageNames : repo[n].exists /\ metaStore[n].exists}
ParentOf(n) ==
  IF n = NoName THEN NoParent ELSE [given |-> TRUE, name |-> n, files |-> repo[n].files]

(***************************************************************************)
(* PackageRevision.GetPackageRevision: the API object of a stored          *)
(* revision, which the API layer passes as the old object of an update.    *)
(***************************************************************************)
GetPackageRevision(name) ==
  [Request("stored", name) EXCEPT
     !.lifecycle = repo[name].lifecycle, !.tasks = repo[name].tasks,
     !.labels = metaStore[name].labels, !.annotations = metaStore[name].annotations]

(***************************************************************************)
(* Handlers. A request names the collaborator call that fails, if any.     *)
(***************************************************************************)
CreatePackageRevision(requests) ==
  /\ Idle
  /\ \E r \in requests :
       /\ ~repo[r.name].exists /\ ~metaStore[r.name].exists
       /\ r.parent \in Listed \cup {NoName}
       /\ LET plan == CreatePlan(r, ParentOf(r.parent))
          IN /\ r.fail <= Len(plan.calls)
             /\ Perform(r, Run(plan, r.fail))
             /\ result' = [Result(Run(plan, r.fail)) EXCEPT
                             !.config = buildPackageConfig(r, ParentOf(r.parent)).path]

UpdatePackageRevision(requests) ==
  /\ Idle
  /\ \E r \in requests :
       /\ r.name \in Listed
       /\ r.parent \in Listed \cup {NoName}
       /\ LET plan == UpdatePlan(GetPackageRevision(r.name), r, repo[r.name],
                                 ParentOf(r.parent))
          IN /\ r.fail <= Len(plan.calls)
             /\ Perform(r, Run(plan, r.fail))
             /\ result' = Result(Run(plan, r.fail))

UpdatePackageResources(requests) ==
  /\ Idle
  /\ \E r \in requests :
       /\ r.name \in Listed
       /\ LET plan == UpdateResourcesPlan(r.name, repo[r.name], r.res)
          IN /\ r.fail <= Len(plan.calls)
             /\ Perform(r, Run(plan, r.fail))
             /\ result' = Result(Run(plan, r.fail))

DeletePackageRevision(requests) ==
  /\ Idle
  /\ \E r \in requests :
       /\ r.name \in Listed
       /\ r.fail <= Len(DeletePlan(r.name).calls)
       /\ Perform(r, Run(DeletePlan(r.name), r.fail))
       /\ result' = Result(Run(DeletePlan(r.name), r.fail))

ListPackageRevisions(requests) ==
  /\ Idle
  /\ \E r \in requests :
       LET plan == ListPlan(SelectSeq(NameOrder, LAMBDA n : repo[n].exists), metaStore)
           out == Run(plan, r.fail)
       IN /\ r.fail <= Len(plan.calls)
          /\ Perform(r, out)
          /\ result' = [Result(out) EXCEPT
                          !.list = IF out.err = NoError THEN PairUp(out.calls) ELSE <<>>]

\* the API layer has taken the answer
Respond ==
  /\ ~Idle
  /\ req' = NoRequest
  /\ calls' = <<>>
  /\ draft' = NoDraft
  /\ result' = NoResult
  /\ before' = NoStores
  /\ UNCHANGED <<repo, metaStore, held, shown, cli>>

(***************************************************************************)
(* Requests.                                                               *)
(***************************************************************************)
\* the largest call number at which a failure is injected
MaxFail == 12
DefaultMeta == [labels |-> "l0", annotations |-> "a0"]
MetaInputs == {DefaultMeta, [labels |-> "l1", annotations |-> "a0"],
               [labels |-> "l0", annotations |-> "a1"]}
WithMeta(r, md) == [r EXCEPT !.labels = md.labels, !.annotations = md.annotations]
WithFailures(requests) == {[r EXCEPT !.fail = k] : r \in requests, k \in 0..MaxFail}

CreateRequest(name, lifecycle, tasks, md, parent) ==
  WithMeta([Request("CreatePackageRevision", name) EXCEPT
              !.lifecycle = lifecycle, !.tasks = tasks, !.parent = parent], md)
\* every lifecycle with every task list; every failure of a Draft request;
\* every metadata input on the smallest request
CreateRequests(name) ==
  {CreateRequest(name, lc, ts, DefaultMeta, NoName) :
     lc \in Lifecycles, ts \in TaskLists}
  \cup WithFailures({CreateRequest(name, Draft, ts, DefaultMeta, NoName) :
                       ts \in TaskLists})
  \cup {CreateRequest(name, Unset, <<>>, md, NoName) : md \in MetaInputs}


\* the new task lists of an update of a revision whose stored list is `old`:
\* the same list, the list cut short, the list with one task replaced, the
\* list with tasks appended, and a cut or extended list with another first task
AppendTasks == {UpdateTask("base@v2"), PatchTask}
Suffixes ==
  SeqsUpTo(Tasks, 1) \cup UNION {[1..k -> AppendTasks] : k \in 2..MaxAppend}
NewTaskLists(old) ==
  {old \o s : s \in Suffixes}
  \cup {SubSeq(old, 1, k) : k \in 0..Len(old)}
  \cup {[old EXCEPT ![i] = t] : i \in 1..Len(old), t \in Tasks}
  \cup {[SubSeq(old, 1, k) EXCEPT ![1] = t] : k \in 1..Len(old), t \in Tasks}
  \cup {[(old \o <<t2>>) EXCEPT ![1] = t] :
          t \in {t \in Tasks : Len(old) > 0}, t2 \in AppendTasks}
KptfileInputs == {<<g, c>> \in GateLists \X CondLists : g = <<>> \/ c = <<>>}
UpdateRequest(name, lifecycle, tasks, md, kf) ==
  WithMeta([Request("UpdatePackageRevision", name) EXCEPT
              !.lifecycle = lifecycle, !.tasks = tasks,
              !.gates = kf[1], !.conds = kf[2]], md)
NoKptfileChange == <<(<<>>), (<<>>)>>
\* every new task list; every desired lifecycle with every Kptfile input or
\* every metadata input; every failure of the requests that keep or extend
\* the list or change its Clone task
UpdateRequests(name) ==
  LET old == repo[name].tasks
      extended == {old, old \o <<UpdateTask("base@v2")>>}
      recloned == {[old EXCEPT ![1] = CloneTask(ref)] :
                     ref \in {ref \in UpstreamRefs : Len(old) > 0}}
  IN IF Len(old) > MaxStored THEN {}
     ELSE {UpdateRequest(name, Draft, ts, DefaultMeta, NoKptfileChange) :
             ts \in NewTaskLists(old)}
          \cup {UpdateRequest(name, lc, ts, DefaultMeta, kf) :
                  lc \in Lifecycles \ {Unset}, ts \in extended, kf \in KptfileInputs}
          \cup {UpdateRequest(name, lc, ts, md, NoKptfileChange) :
                  lc \in Lifecycles \ {Unset}, ts \in extended, md \in MetaInputs}
          \cup WithFailures({UpdateRequest(name, Proposed, ts, DefaultMeta, kf) :
                               ts \in extended \cup recloned, kf \in KptfileInputs})

\* the file sets a client sends to UpdatePackageResources
Resources(kptfile, a, b) ==
  [p \in Paths |-> CASE p = "Kptfile" -> kptfile [] p = "a.yaml" -> a [] OTHER -> b]
ResourceInputs ==
  {Resources(KptfileContent(<<>>, <<>>), <<"obj1">>, Absent),
   Resources(KptfileContent(<<"g1">>, <<>>), <<"obj1 # note">>, <<"notes">>),
   Resources(KptfileContent(<<>>, <<>>), <<"obj1", "# rendered">>, Absent),
   Resources(KptfileContent(<<"g1">>, <<>>), <<"obj2">>, Absent),
   Resources(Absent, <<Unparseable>>, <<"notes">>)}
ResourcesRequest(name, res) ==
  [Request("UpdatePackageResources", name) EXCEPT !.res = res]
UpdateResourcesRequests(name) ==
  IF Len(repo[name].tasks) > MaxStored THEN {}
  ELSE WithFailures({ResourcesRequest(name, res) : res \in ResourceInputs})

DeleteRequests(name) == WithFailures({Request("DeletePackageRevision", name)})
ListRequests == WithFailures({Request("ListPackageRevisions", NoName)})

Next ==
  \/ CreatePackageRevision(CreateRequests("net"))
  \/ UpdatePackageRevision(UpdateRequests("net"))
  \/ UpdatePackageResources(UpdateResourcesRequests("net"))
  \/ DeletePackageRevision(DeleteRequests("net"))
  \/ ListPackageRevisions(ListRequests)
  \/ Respond

Spec == Init /\ [][Next]_vars

(***************************************************************************)
(* The repository with both packages: revisions created, relabelled,       *)
(* deleted and listed, each call with every failure of a collaborator.     *)
(***************************************************************************)
RepoCreateRequests ==
  WithFailures({CreateRequest(n, lc, <<CloneTask("base@v1")>>, md, NoName) :
                  n \in PackageNames, lc \in {Draft, Proposed}, md \in MetaInputs})
RepoUpdateRequests ==
  WithFailures({UpdateRequest(n, lc, repo[n].tasks, md, NoKptfileChange) :
                  n \in PackageNames, lc \in {Proposed, Published}, md \in MetaInputs})
RepoDeleteRequests ==
  WithFailures({Request("DeletePackageRevision", n) : n \in PackageNames})

NextRepo ==
  \/ CreatePackageRevision(RepoCreateRequests)
  \/ UpdatePackageRevision(RepoUpdateRequests)
  \/ DeletePackageRevision(RepoDeleteRequests)
  \/ ListPackageRevisions(ListRequests)
  \/ Respond

SpecRepo == Init /\ [][NextRepo]_vars

(***************************************************************************)
(* A package and its parent: the parent "net" is created, given resources  *)
(* with or without context ConfigMaps and deleted; "db" is created with    *)
(* and without the parent.                                                 *)
(***************************************************************************)
ContextInputs ==
  {Resources(KptfileContent(<<>>, <<>>), docs, Absent) :
     docs \in {<<"obj1">>, <<ContextDoc("")>>, <<ContextDoc("foo/bar")>>,
               <<" ", ContextDoc("foo/bar")>>,
               <<ContextDoc(""), ContextDoc("foo/bar")>>,
               <<ContextDoc("foo/bar"), ContextDoc("foo/bar")>>}}
ParentCreateRequests ==
  WithFailures({CreateRequest("net", Draft, <<>>, DefaultMeta, NoName)}
               \cup {CreateRequest("db", lc, ts, DefaultMeta, parent) :
                       lc \in {Draft, Published},
                       ts \in {<<>>, <<CloneTask("base@v1")>>},
                       parent \in {NoName, "net"}})
ParentResourcesRequests ==
  IF Len(repo["net"].tasks) > MaxStored THEN {}
  ELSE {ResourcesRequest("net", res) : res \in ContextInputs}
ParentDeleteRequests == {Request("DeletePackageRevision", n) : n \in PackageNames}

NextParent ==
  \/ CreatePackageRevision(ParentCreateRequests)
  \/ UpdatePackageResources(ParentResourcesRequests)
  \/ DeletePackageRevision(ParentDeleteRequests)
  \/ Respond

SpecParent == Init /\ [][NextParent]_vars

(***************************************************************************)
(* PackageRevision.GetPackageRevision on a held PackageRevision: the       *)
(* repository's API object relabelled with the labels and annotations of   *)
(* the metadata record, and flagged latest if the repository flagged it.   *)
(***************************************************************************)
\* repoPkgRev.Labels = p.packageRevisionMeta.Labels, then the latest label
\* written into repoPkgRev.Labels: into a fresh map if the record's map is
\* nil, into the record's map otherwise
presentedLabels(p) ==
  IF ~p.latest THEN p.labels
  ELSE Labels(FALSE, p.labels.keys \cup {LatestPackageRevisionKey})
recordLabelsAfter(p) ==
  IF p.latest /\ ~p.labels.isNil
  THEN Labels(FALSE, p.labels.keys \cup {LatestPackageRevisionKey})
  ELSE p.labels
PresentPackageRevision ==
  /\ shown' = [done |-> TRUE, record |-> held, labels |-> presentedLabels(held),
               annotations |-> held.annotations]
  /\ held' = [held EXCEPT !.labels = recordLabelsAfter(held)]
  /\ UNCHANGED <<repo, metaStore, req, calls, draft, result, before, cli>>
\* the repository flags another revision of the package as the latest one,
\* or this one
RepositoryFlagsLatest ==
  /\ held' = [held EXCEPT !.latest = ~@]
  /\ shown' = NoShown
  /\ UNCHANGED <<repo, metaStore, req, calls, draft, result, before, cli>>

InitPresent ==
  /\ repo = [n \in PackageNames |-> NoRev]
  /\ metaStore = [n \in PackageNames |-> NoMeta]
  /\ req = NoRequest
  /\ calls = <<>>
  /\ draft = NoDraft
  /\ result = NoResult
  /\ before = NoStores
  /\ held \in {Handle(l, a, f) :
                 l \in {NilLabels} \cup {Labels(FALSE, ks) : ks \in SUBSET {"app", "tier", "env"}},
                 a \in {"a0", "a1"}, f \in BOOLEAN}
  /\ shown = NoShown
  /\ cli = Started(<<>>, FALSE)

NextPresent ==
  \/ PresentPackageRevision
  \/ RepositoryFlagsLatest

SpecPresent == InitPresent /\ [][NextPresent]_vars

(***************************************************************************)
(* The reject command (commands/alpha/rpkg/reject): cobra runs preRunE and, *)
(* if it returned no error, runE, with the positional arguments.           *)
(***************************************************************************)
\* porch.UpdatePackageRevisionApproval(ctx, client, key, lifecycle) and its answer
Approval(name, lifecycle, ok) == [name |-> name, lifecycle |-> lifecycle, ok |-> ok]
\* the err.Error() texts of the requests that failed
RECURSIVE Messages(_)
Messages(sent) ==
  IF sent = <<>> THEN <<>>
  ELSE (IF Head(sent).ok THEN <<>> ELSE <<Head(sent).name \o " failed">>)
       \o Messages(Tail(sent))
preRunE ==
  /\ cli.phase = "start"
  /\ cli' = IF Len(cli.args) < 1
            THEN [cli EXCEPT !.phase = "preRunFailed",
                             !.err = "PACKAGE_REVISION is a required positional argument"]
            ELSE IF ~cli.canConnect
            THEN [cli EXCEPT !.phase = "preRunFailed", !.err = "cannot create client"]
            ELSE [cli EXCEPT !.phase = "preRun", !.hasClient = TRUE]
  /\ UNCHANGED <<repo, metaStore, req, calls, draft, result, before, held, shown>>
\* a run that returns at the first request that fails
runEUntilFailure ==
  /\ cli.phase = "preRun"
  /\ \E answers \in [1..Len(cli.args) -> BOOLEAN] :
       LET failing == {i \in 1..Len(cli.args) : ~answers[i]}
           last == IF failing = {} THEN Len(cli.args)
                   ELSE CHOOSE i \in failing : \A j \in failing : i <= j
           sent == [i \in 1..last |->
                      Approval(cli.args[i], Draft, answers[i])]
           messages == Messages(sent)
       IN cli' = [cli EXCEPT !.phase = "ran", !.sent = sent, !.messages = messages,
                             !.err = IF Len(messages) > 0 THEN "errors" ELSE ""]
  /\ UNCHANGED <<repo, metaStore, req, calls, draft, result, before, held, shown>>
runE ==
  /\ cli.phase = "preRun"
  /\ \E answers \in [1..Len(cli.args) -> BOOLEAN] :
       LET sent == [i \in 1..Len(cli.args) |->
                      Approval(cli.args[i], Draft, answers[i])]
           messages == Messages(sent)
       IN cli' = [cli EXCEPT !.phase = "ran", !.sent = sent, !.messages = messages,
                             !.err = IF Len(messages) > 0 THEN "errors" ELSE ""]
  /\ UNCHANGED <<repo, metaStore, req, calls, draft, result, before, held, shown>>

InitReject ==
  /\ repo = [n \in PackageNames |-> NoRev]
  /\ metaStore = [n \in PackageNames |-> NoMeta]
  /\ req = NoRequest
  /\ calls = <<>>
  /\ draft = NoDraft
  /\ result = NoResult
  /\ before = NoStores
  /\ held = NoHandle
  /\ shown = NoShown
  /\ cli \in {Started(args, canConnect) :
                args \in UNION {[1..k -> PackageNames] : k \in 0..MaxArgs},
                canConnect \in BOOLEAN}

NextReject ==
  \/ preRunE
  \/ runE

SpecReject == InitReject /\ [][NextReject]_vars

(***************************************************************************)
(* Properties.                                                             *)
(***************************************************************************)
Called(op) == \E i \in 1..Len(calls) : calls[i].op = op
CallsOf(op) == SelectSeq(calls, LAMBDA c : c.op = op)
\* the mutations handed to Apply, in order
Applied == CallsOf("mutation.Apply")
\* the stored revision and the record the call found
OldRev == before.repo[req.name]
OldMeta == before.meta[req.name]
StoresUnchanged == repo = before.repo /\ metaStore = before.meta
\* the mutation variant a task of a request stands for
KindOf(task) ==
  IF task.type = TaskTypeEval /\ task.arg = "render" THEN "render" ELSE task.type
IsCreate == req.op = "CreatePackageRevision"
IsUpdate == req.op = "UpdatePackageRevision"

\* C1: CreatePackageRevision accepts only the lifecycles unset, Draft and
\* Proposed; unset is stored as Draft; Published and every other value are
\* rejected with an error, and then no draft is created and no metadata
\* record is written.
C1_CreateLifecycleGate ==
  IsCreate =>
    /\ (req.lifecycle \notin {Unset, Draft, Proposed} =>
          /\ result.err # NoError
          /\ ~Called("repo.CreatePackageRevision")
          /\ ~Called("metadataStore.Create")
          /\ draft = NoDraft
          /\ StoresUnchanged)
    /\ (result.err = NoError =>
          LET stored == IF req.lifecycle = Unset THEN Draft ELSE req.lifecycle
          IN /\ req.lifecycle \in {Unset, Draft, Proposed}
             /\ CallsOf("draft.UpdateLifecycle") = <<UpdateLifecycleCall(req.name, stored)>>
             /\ repo[req.name].exists
             /\ repo[req.name].lifecycle = stored)
C1_Witness ==
  /\ IsCreate /\ req.lifecycle = Published /\ req.tasks = <<CloneTask("base@v1")>>
  /\ result.err # NoError /\ calls = <<>>

\* C2: UpdatePackageRevision on a revision whose old lifecycle is Published
\* opens no draft, calls neither UpdateResources nor UpdateLifecycle nor
\* Close, leaves the stored files and tasks as they were and changes only the
\* labels and annotations of the metadata record; it returns the old
\* revision handle.
C2_PublishedMetadataOnly ==
  (IsUpdate /\ OldRev.lifecycle = Published) =>
    /\ \A i \in 1..Len(calls) :
          calls[i].op \in {"cache.OpenRepository", "metadataStore.Update"}
    /\ draft = NoDraft
    /\ repo = before.repo
    /\ \A n \in PackageNames \ {req.name} : metaStore[n] = before.meta[n]
    /\ metaStore[req.name].exists = OldMeta.exists
    /\ (calls[Len(calls)].op = "metadataStore.Update" /\ calls[Len(calls)].ok /\ OldMeta.exists
          => /\ metaStore[req.name].labels = req.labels
             /\ metaStore[req.name].annotations = req.annotations)
    /\ (result.err = NoError => result.ret.rev = req.name)
C2_Witness ==
  /\ IsUpdate /\ OldRev.lifecycle = Published /\ result.err = NoError
  /\ req.tasks # OldRev.tasks /\ req.lifecycle = Draft
  /\ OldMeta.labels = "l0" /\ req.labels = "l1" /\ metaStore[req.name].labels = "l1"

\* C3: once a revision's stored lifecycle is Published, no Create, Update or
\* UpdatePackageResources call makes it Draft or Proposed again, and no
\* update path calls UpdateLifecycle on it, whatever the new object asks for.
C3_PublishedStaysPublished ==
  \A n \in PackageNames :
    (before.repo[n].exists /\ before.repo[n].lifecycle = Published
       /\ req.op \in {"CreatePackageRevision", "UpdatePackageRevision",
                       "UpdatePackageResources"}) =>
      /\ repo[n].exists /\ repo[n].lifecycle = Published
      /\ (req.name = n => ~Called("draft.UpdateLifecycle"))
C3_Witness ==
  /\ IsUpdate /\ OldRev.lifecycle = Published /\ req.lifecycle = Draft
  /\ req.labels = OldMeta.labels /\ req.annotations = "a1"
  /\ result.err = NoError /\ repo[req.name].lifecycle = Published

\* C4: a Create whose task list is empty or starts with neither Init nor
\* Clone applies first an Init mutation with description "<packageName>
\* description" and empty subpackage, then the mutations of the request's
\* tasks in their order; when the first task is Init or Clone, no Init is
\* put in front.
ExpectedKinds(packageName, tasks) ==
  (IF tasks = <<>> \/ tasks[1].type \notin {TaskTypeInit, TaskTypeClone}
   THEN <<"init">> ELSE <<>>) \o [i \in 1..Len(tasks) |-> KindOf(tasks[i])]
C4_InitAutoPrepend ==
  (IsCreate /\ Applied # <<>>) =>
    LET auto == req.tasks = <<>> \/ req.tasks[1].type \notin {TaskTypeInit, TaskTypeClone}
        shift == IF auto THEN 1 ELSE 0
    IN /\ auto =>
            /\ Applied[1].kind = "init"
            /\ Applied[1].task.payload = "init"
            /\ Applied[1].task.arg = req.name \o " description"
            /\ Applied[1].task.sub = ""
       /\ \A i \in 1..Len(req.tasks) :
            i + shift <= Len(Applied) =>
              /\ Applied[i + shift].kind = KindOf(req.tasks[i])
              /\ (KindOf(req.tasks[i]) # "render" => Applied[i + shift].task = req.tasks[i])
       /\ (result.err = NoError => Len(Applied) >= Len(req.tasks) + shift)
       /\ \A i \in 1..Len(draft.tasks) :
            draft.tasks[i] = IF Applied[i].kind = "render" THEN RenderAuditTask
                             ELSE Applied[i].task
C4_Witness ==
  /\ IsCreate /\ req.tasks = <<PatchTask, EvalTask("fn")>> /\ result.err = NoError
  /\ Len(repo[req.name].tasks) = Len(req.tasks) + 2
  /\ repo[req.name].tasks[1].arg = "net description"
  /\ repo[req.name].tasks[2] = PatchTask

\* the mutation variants of a task list, with the Init the engine puts in
\* front, and with the Render the engine puts behind
AppliedKinds == [i \in 1..Len(Applied) |-> Applied[i].kind]
WithRender(kinds) ==
  IF kinds # <<>> /\ kinds[Len(kinds)] # "render" THEN Append(kinds, "render") ELSE kinds
IsPrefix(a, b) == Len(a) <= Len(b) /\ \A i \in 1..Len(a) : a[i] = b[i]

\* C5 (as stated): the sequence Create applies is M followed by exactly one
\* Render when M does not end with a Render and exactly M when it does, and
\* two Render mutations are never applied back to back.
C5_NeverTwoRenders ==
  IsCreate =>
    LET M == ExpectedKinds(req.name, req.tasks)
    IN /\ IsPrefix(AppliedKinds, WithRender(M))
       /\ (result.err = NoError => AppliedKinds = WithRender(M))
       /\ \A i \in 1..(Len(Applied) - 1) :
            ~(Applied[i].kind = "render" /\ Applied[i + 1].kind = "render")
\* C5 (amended): the sequence Create applies is M followed by exactly one
\* Render when M does not end with a Render and exactly M when it does; the
\* engine never puts a Render behind a Render, so two Renders are applied
\* back to back only where M itself has them back to back.
C5_OneRenderAppended ==
  IsCreate =>
    LET M == ExpectedKinds(req.name, req.tasks)
    IN /\ IsPrefix(AppliedKinds, WithRender(M))
       /\ (result.err = NoError => AppliedKinds = WithRender(M))
       /\ \A i \in 1..(Len(Applied) - 1) :
            (Applied[i].kind = "render" /\ Applied[i + 1].kind = "render") =>
              (i + 1 <= Len(M) /\ M[i] = "render" /\ M[i + 1] = "render")
C5_Witness ==
  /\ IsCreate /\ result.err = NoError
  /\ req.tasks = <<CloneTask("base@v1"), PatchTask>>
  /\ AppliedKinds = <<"clone", "patch", "render">>
  /\ Len(repo[req.name].tasks) = 3

\* the task lists the checks of an update in place refuse, and the pairs of
\* lists that are recloned
ListsRefused(old, new) ==
  \/ Len(new) < Len(old)
  \/ Len(new) > Len(old) + 1
  \/ \E i \in 1..Len(old) : i <= Len(new) /\ old[i].type # new[i].type
BothCloneAndDiffer(old, new) ==
  /\ old # <<>> /\ new # <<>>
  /\ old[1].type = TaskTypeClone /\ new[1].type = TaskTypeClone
  /\ old[1] # new[1]
IsDraftUpdate == IsUpdate /\ OldRev.lifecycle \in {Draft, Proposed}

\* C6 (as stated): an update of a Draft or Proposed revision fails whenever
\* the new task list is shorter than the old one, longer by more than one
\* task, or of another task type at a shared index, for every pair of lists,
\* those whose first tasks are both Clone included.
C6_ListsRefusedAlways ==
  (IsDraftUpdate /\ ListsRefused(OldRev.tasks, req.tasks)) => result.err # NoError
\* C6 (amended): an update of a Draft or Proposed revision fails, before a
\* draft is opened, whenever the new task list is shorter than the old one,
\* longer by more than one task, or of another task type at a shared index,
\* unless both lists begin with Clone tasks that are not deeply equal.
C6_ListsRefusedInPlace ==
  (/\ IsDraftUpdate
   /\ ListsRefused(OldRev.tasks, req.tasks)
   /\ ~BothCloneAndDiffer(OldRev.tasks, req.tasks)) =>
    /\ result.err # NoError
    /\ ~Called("repo.UpdatePackageRevision")
    /\ ~Called("repo.CreatePackageRevision")
    /\ draft = NoDraft
    /\ StoresUnchanged
C6_Witness ==
  /\ IsDraftUpdate /\ OldRev.tasks[1] = CloneTask("base@v1")
  /\ req.tasks = <<CloneTask("base@v1")>> /\ Len(OldRev.tasks) = 2
  /\ req.lifecycle = Draft
  /\ result.err = "removing tasks is not yet supported"

\* C7: in an update in place, one appended task is accepted only if it is an
\* Update task with its payload set and the old list begins with a Clone
\* task; every other append is refused with an error before
\* repository.UpdatePackageRevision is called, so that no draft is opened.
C7_AppendOnlyUpdate ==
  (/\ IsDraftUpdate
   /\ ~BothCloneAndDiffer(OldRev.tasks, req.tasks)
   /\ Len(req.tasks) = Len(OldRev.tasks) + 1) =>
    LET appended == req.tasks[Len(req.tasks)]
        allowed == /\ appended.type = TaskTypeUpdate
                   /\ appended.payload # ""
                   /\ OldRev.tasks # <<>>
                   /\ OldRev.tasks[1].type = TaskTypeClone
    IN /\ (result.err = NoError => allowed)
       /\ (Called("repo.UpdatePackageRevision") => allowed)
       /\ (~allowed =>
             /\ result.err # NoError
             /\ draft = NoDraft
             /\ StoresUnchanged)
C7_Witness ==
  /\ IsDraftUpdate /\ OldRev.lifecycle = Draft
  /\ Len(OldRev.tasks) = 2 /\ OldRev.tasks[1].payload = "init"
  /\ req.tasks = OldRev.tasks \o <<UpdateTask("base@v2")>>
  /\ req.lifecycle = Draft /\ req.fail = 0
  /\ result.err = "upstream source not found"
  /\ ~Called("repo.UpdatePackageRevision")

\* C8: an update of a Draft or Proposed revision is a reclone-and-replay if
\* and only if both task lists are non-empty, both begin with a Clone task
\* and the two Clone tasks are not deeply equal; then the engine calls
\* repository.CreatePackageRevision and never
\* repository.UpdatePackageRevision, replays the whole new task list from an
\* empty file set with the Render put behind, and appends no Update task.
C8_RecloneIff ==
  IsDraftUpdate =>
    LET reclone == BothCloneAndDiffer(OldRev.tasks, req.tasks)
        replayed == WithRender([i \in 1..Len(req.tasks) |-> KindOf(req.tasks[i])])
    IN /\ (Called("repo.CreatePackageRevision") => reclone)
       /\ (reclone => ~Called("repo.UpdatePackageRevision"))
       /\ (~reclone /\ result.err = NoError => Called("repo.UpdatePackageRevision"))
       /\ (reclone /\ req.lifecycle \in {Draft, Proposed, Published} /\ calls[1].ok
              => Called("repo.CreatePackageRevision"))
       /\ (reclone =>
             /\ IsPrefix(AppliedKinds, replayed)
             /\ (Applied # <<>> => Applied[1].input = EmptyFiles)
             /\ \A i \in 1..Len(Applied) :
                  Applied[i].kind = "update" => Applied[i].task = req.tasks[i]
             /\ (result.err = NoError =>
                   /\ AppliedKinds = replayed
                   /\ Len(repo[req.name].tasks) = Len(replayed)))
C8_Witness ==
  /\ IsDraftUpdate /\ result.err = NoError
  /\ OldRev.tasks[1] = CloneTask("base@v1")
  /\ req.tasks = [OldRev.tasks EXCEPT ![1] = CloneTask("base@v2")]
  /\ Len(req.tasks) = 2
  /\ Called("repo.CreatePackageRevision")
  /\ repo[req.name].tasks[1] = CloneTask("base@v2")
  /\ repo[req.name].files # OldRev.files

\* C9: an update in place of a revision whose old lifecycle is Proposed
\* applies no mutation and never calls draft.UpdateResources: the stored
\* files and tasks stay as they were, and only the lifecycle and the labels
\* and annotations can change, even when an Update task was appended or the
\* fields projected from the Kptfile differ.
C9_ProposedKeepsContent ==
  (/\ IsUpdate /\ OldRev.lifecycle = Proposed
   /\ ~BothCloneAndDiffer(OldRev.tasks, req.tasks)) =>
    /\ Applied = <<>>
    /\ ~Called("draft.UpdateResources")
    /\ repo[req.name].exists
    /\ repo[req.name].files = OldRev.files
    /\ repo[req.name].tasks = OldRev.tasks
    /\ \A n \in PackageNames \ {req.name} :
         repo[n] = before.repo[n] /\ metaStore[n] = before.meta[n]
C9_Witness ==
  /\ IsUpdate /\ OldRev.lifecycle = Proposed /\ result.err = NoError
  /\ req.tasks = OldRev.tasks \o <<UpdateTask("base@v2")>>
  /\ req.gates = <<"g1">> /\ KptfileGates(OldRev.files["Kptfile"]) = <<>>
  /\ req.lifecycle = Draft /\ repo[req.name].lifecycle = Draft

\* the revisions the repository lists that have a record, each with its own
\* record, in the repository's order
RECURSIVE WithRecords(_)
WithRecords(names) ==
  IF names = <<>> THEN <<>>
  ELSE LET n == Head(names)
       IN (IF before.repo[n].exists /\ before.meta[n].exists
           THEN <<[rev |-> n, hasMeta |-> TRUE, labels |-> before.meta[n].labels,
                   annotations |-> before.meta[n].annotations]>>
           ELSE <<>>) \o WithRecords(Tail(names))

\* C10: ListPackageRevisions returns exactly the revisions the repository
\* lists for which the metadata store holds a record: a revision whose
\* lookup answers not-found is left out without an error, and every revision
\* returned is paired with its own record.
C10_ListedIffRecorded ==
  req.op = "ListPackageRevisions" =>
    /\ (result.err = NoError => result.list = WithRecords(NameOrder))
    /\ (req.fail = 0 => result.err = NoError)
    /\ StoresUnchanged
C10_Witness ==
  /\ req.op = "ListPackageRevisions" /\ result.err = NoError
  /\ before.repo["db"].exists /\ ~before.meta["db"].exists
  /\ before.repo["net"].exists /\ before.meta["net"].labels = "l1"
  /\ Len(result.list) = 1 /\ result.list[1].rev = "net" /\ result.list[1].labels = "l1"

\* the positions of the calls of one collaborator operation
PositionsOf(ops) == {i \in 1..Len(calls) : calls[i].op \in ops}
ClosedBefore(i) == \E j \in 1..(i - 1) : calls[j].op = "draft.Close" /\ calls[j].ok
IsInPlace == IsDraftUpdate /\ ~BothCloneAndDiffer(OldRev.tasks, req.tasks)

IsResources == req.op = "UpdatePackageResources"
IsDelete == req.op = "DeletePackageRevision"
CalledOk(op) == \E i \in 1..Len(calls) : calls[i].op = op /\ calls[i].ok

\* C12: every successful operation that mutates a revision writes the
\* metadata store: Create creates the record, every successful
\* UpdatePackageRevision and UpdatePackageResources updates or creates it,
\* Delete deletes it; so the revision a successful mutating call returns has
\* a metadata record and is listed.
C12_MutationsWriteMetadata ==
  result.err = NoError =>
    /\ IsCreate => Called("metadataStore.Create")
    /\ (IsUpdate \/ IsResources) =>
         /\ (Called("metadataStore.Update") \/ Called("metadataStore.Create"))
         /\ result.ret.hasMeta
    /\ IsDelete => Called("metadataStore.Delete")
    /\ (IsCreate \/ IsUpdate \/ IsResources) => req.name \in Listed

\* C13: every failure of a collaborator during an operation is returned to
\* the caller as an error; in particular, when metadataStore.Update fails
\* during UpdatePackageRevision the call returns an error and no revision.
C13_FailuresReturned ==
  (\E i \in 1..Len(calls) : ~calls[i].ok) =>
    /\ result.err # NoError
    /\ result.ret = NoRet

\* C14: no partial commits: whenever CreatePackageRevision,
\* UpdatePackageRevision or UpdatePackageResources returns an error, no draft
\* has been closed by the call and the repository holds what it held before.
C14_NoPartialCommit ==
  ((IsCreate \/ IsUpdate \/ IsResources) /\ result.err # NoError) =>
    /\ ~CalledOk("draft.Close")
    /\ repo = before.repo

\* C15: UpdatePackageResources succeeds only when the stored lifecycle is
\* Draft; for Proposed, Published and every other value it returns an error
\* without opening a draft and without applying a mutation.
C15_ResourcesOnlyDraft ==
  /\ IsResources =>
       /\ (result.err = NoError => OldRev.lifecycle = Draft)
       /\ (OldRev.lifecycle # Draft =>
             /\ result.err # NoError
             /\ ~Called("cache.OpenRepository")
             /\ ~Called("repo.UpdatePackageRevision")
             /\ Applied = <<>>
             /\ draft = NoDraft
             /\ StoresUnchanged)
  /\ \A lifecycle \in Lifecycles \ {Draft} : ResourcesLifecycle(lifecycle) # NoError
C15_Witness ==
  /\ IsResources /\ OldRev.lifecycle = Proposed /\ req.fail = 0
  /\ result.err = "cannot update a package revision; package must be Draft"
  /\ Len(calls) = 1

\* C16: UpdatePackageResources makes no lifecycle transition: it never calls
\* draft.UpdateLifecycle, the stored lifecycle after a successful call is
\* the one before it (Draft), and the draft records exactly two tasks for
\* the call, the audit Patch of the replacement followed by a Render.
C16_ResourcesKeepLifecycle ==
  IsResources =>
    /\ ~Called("draft.UpdateLifecycle")
    /\ repo[req.name].lifecycle = OldRev.lifecycle
    /\ (result.err = NoError =>
          LET recorded == CallsOf("draft.UpdateResources")
              n == Len(OldRev.tasks)
          IN /\ repo[req.name].lifecycle = Draft
             /\ Len(recorded) = 2
             /\ recorded[1].kind = "replace" /\ recorded[1].task.type = TaskTypePatch
             /\ recorded[2].kind = "render"
             /\ repo[req.name].tasks = OldRev.tasks \o <<recorded[1].task, recorded[2].task>>
             /\ repo[req.name].tasks[n + 1].type = TaskTypePatch
             /\ repo[req.name].tasks[n + 2] = RenderAuditTask)
C16_Witness ==
  /\ IsResources /\ result.err = NoError
  /\ OldRev.lifecycle = Draft /\ repo[req.name].lifecycle = Draft
  /\ Len(repo[req.name].tasks) = Len(OldRev.tasks) + 2
  /\ repo[req.name].files # OldRev.files

\* C17: DeletePackageRevision deletes from the repository first and from the
\* metadata store second: if the repository deletion fails the record is
\* left as it was and the error is returned; if the repository deletion
\* succeeds and the deletion of the record fails, the call returns an error
\* while the files are already gone.
C17_DeleteFilesThenRecord ==
  IsDelete =>
    /\ \A i \in PositionsOf({"metadataStore.Delete"}) :
         \E j \in 1..(i - 1) : calls[j].op = "repo.DeletePackageRevision" /\ calls[j].ok
    /\ (~CalledOk("repo.DeletePackageRevision") =>
          /\ result.err # NoError
          /\ ~Called("metadataStore.Delete")
          /\ StoresUnchanged)
    /\ (CalledOk("repo.DeletePackageRevision") =>
          /\ ~repo[req.name].exists
          /\ Called("metadataStore.Delete")
          /\ (CalledOk("metadataStore.Delete") =>
                result.err = NoError /\ ~metaStore[req.name].exists)
          /\ (~CalledOk("metadataStore.Delete") =>
                result.err # NoError /\ metaStore[req.name] = OldMeta))
C17_Witness ==
  /\ IsDelete /\ result.err # NoError
  /\ CalledOk("repo.DeletePackageRevision") /\ ~CalledOk("metadataStore.Delete")
  /\ OldRev.exists /\ ~repo[req.name].exists /\ metaStore[req.name].exists

StoredKinds(name) == [i \in 1..Len(repo[name].tasks) |-> KindOf(repo[name].tasks[i])]
IsCloneCreate ==
  /\ IsCreate /\ Len(req.tasks) = 1 /\ req.tasks[1].type = TaskTypeClone
  /\ req.tasks[1].payload # "" /\ req.fail = 0

\* C18 (as stated): a Create with a Clone first task and desired lifecycle
\* Published succeeds and stores a revision with tasks [Clone, Render] and
\* lifecycle Published.
C18_ClonePublishedCreated ==
  (IsCloneCreate /\ req.lifecycle = Published) =>
    /\ result.err = NoError
    /\ repo[req.name].exists
    /\ StoredKinds(req.name) = <<"clone", "render">>
    /\ repo[req.name].lifecycle = Published
\* C18 (amended): a Create with a Clone first task and desired lifecycle
\* Published is refused with an error and stores no revision; with desired
\* lifecycle Draft or Proposed (or unset, stored as Draft) it succeeds and
\* stores a revision with tasks [Clone, Render] and the desired lifecycle.
C18_ClonePublishedRefused ==
  IsCloneCreate =>
    /\ (req.lifecycle = Published =>
          /\ result.err # NoError
          /\ ~repo[req.name].exists /\ ~metaStore[req.name].exists
          /\ calls = <<>>)
    /\ (req.lifecycle \in {Unset, Draft, Proposed} =>
          /\ result.err = NoError
          /\ repo[req.name].exists
          /\ StoredKinds(req.name) = <<"clone", "render">>
          /\ repo[req.name].tasks[1] = req.tasks[1]
          /\ repo[req.name].lifecycle = (IF req.lifecycle = Unset THEN Draft
                                         ELSE req.lifecycle))
C18_Witness ==
  /\ IsCloneCreate /\ req.lifecycle = Proposed /\ result.err = NoError
  /\ repo[req.name].tasks = <<CloneTask("base@v1"), RenderAuditTask>>
  /\ repo[req.name].lifecycle = Proposed

IsValidDesired == req.lifecycle \in {Draft, Proposed, Published}

\* C19 (as stated): every UpdatePackageRevision whose desired lifecycle is
\* none of Draft, Proposed, Published returns an error and changes nothing
\* (no draft opened, no metadata written), for every old lifecycle.
C19_InvalidDesiredRefusedAlways ==
  (IsUpdate /\ ~IsValidDesired) =>
    /\ result.err # NoError
    /\ draft = NoDraft
    /\ ~Called("metadataStore.Update")
    /\ StoresUnchanged
\* C19 (amended): every UpdatePackageRevision whose desired lifecycle is
\* none of Draft, Proposed, Published and whose old lifecycle is not
\* Published returns an error and changes nothing (no draft opened, no
\* metadata written); on a Published revision the desired lifecycle is not
\* looked at.
C19_InvalidDesiredRefused ==
  (IsUpdate /\ ~IsValidDesired /\ OldRev.lifecycle # Published) =>
    /\ result.err # NoError
    /\ \A i \in 1..Len(calls) : calls[i].op = "cache.OpenRepository"
    /\ draft = NoDraft
    /\ StoresUnchanged
C19_Witness ==
  /\ IsUpdate /\ OldRev.lifecycle = Draft /\ req.lifecycle = Bogus
  /\ req.labels # OldMeta.labels
  /\ result.err = "invalid desired lifecycle value"
  /\ metaStore[req.name] = OldMeta

\* the audit task has exactly the entries a replacement of `old` by `new`
\* calls for: one per path created, deleted or changed, none for the others
PatchesOf(patches, k) == {ps \in patches : ps.file = k}
OnePatch(patches, k, patchType) ==
  /\ Cardinality(PatchesOf(patches, k)) = 1
  /\ \A ps \in PatchesOf(patches, k) : ps.patchType = patchType
AuditsReplacement(patches, old, new) ==
  \A k \in Paths :
    CASE old[k] = Absent /\ new[k] # Absent -> OnePatch(patches, k, PatchTypeCreateFile)
      [] old[k] # Absent /\ new[k] = Absent -> OnePatch(patches, k, PatchTypeDeleteFile)
      [] old[k] # Absent /\ new[k] # Absent /\ old[k] # new[k] ->
           OnePatch(patches, k, PatchTypePatchFile)
      [] OTHER -> PatchesOf(patches, k) = {}
\* the replacement has been applied and its result handed to the draft
ReplaceApplied ==
  /\ IsResources
  /\ CallsOf("draft.UpdateResources") # <<>>
  /\ CallsOf("draft.UpdateResources")[1].kind = "replace"
ReplaceOld == Applied[1].input
ReplaceAudit == CallsOf("draft.UpdateResources")[1].task
ReplaceResult == CallsOf("draft.UpdateResources")[1].files

\* C20 (as stated): the audit Patch task of a replacement of an old file set
\* by a new file set has exactly one PatchSpec for each path only in the new
\* set (CreateFile), each path only in the old set (DeleteFile) and each path
\* in both with different contents, and none for a path with equal contents;
\* the file set returned is the new set.
C20_AuditOfNewSet ==
  ReplaceApplied =>
    /\ ReplaceAudit.type = TaskTypePatch
    /\ AuditsReplacement(ReplaceAudit.patches, ReplaceOld, req.res)
    /\ ReplaceResult = req.res
\* C20 (amended): the audit Patch task has exactly one PatchSpec for each
\* path only in the healed new set (CreateFile), each path only in the old
\* set (DeleteFile) and each path in both with different contents, and none
\* for a path whose contents are equal in the old and the healed new set;
\* the file set returned is the healed new set: the new set after the heal
\* step has copied the comments of the matching objects of the old set.
C20_AuditOfHealedSet ==
  ReplaceApplied =>
    /\ ReplaceAudit.type = TaskTypePatch
    /\ AuditsReplacement(ReplaceAudit.patches, ReplaceOld, ReplaceResult)
    /\ ReplaceResult = healConfig(ReplaceOld, req.res).files
C20_Witness ==
  /\ ReplaceApplied /\ result.err = NoError
  /\ ReplaceOld["a.yaml"] = <<"obj1 # note", "# rendered">>
  /\ req.res["a.yaml"] = <<"obj1", "# rendered">>
  /\ ReplaceResult["a.yaml"] = ReplaceOld["a.yaml"]
  /\ PatchesOf(ReplaceAudit.patches, "a.yaml") = {}
  /\ ReplaceOld["b.txt"] # Absent
  /\ OnePatch(ReplaceAudit.patches, "b.txt", PatchTypeDeleteFile)

\* the context ConfigMaps among the documents of the parent's YAML file
ParentFiles == before.repo[req.parent].files
ContextMatches(files) ==
  {i \in 1..Len(files["a.yaml"]) : files["a.yaml"][i] \in ContextDocs}
HasParent == IsCreate /\ req.parent # NoName
ParentRead == HasParent /\ CalledOk("parent.GetResources")

\* C21: when the parent's resources hold two or more ConfigMaps with the
\* reserved context name, CreatePackageRevision fails before the repository
\* is asked for a draft and before a metadata record is written; with no
\* match the parent contributes only its package name, with exactly one
\* match that ConfigMap is used.
C21_ContextConfigMapConflict ==
  ParentRead =>
    LET n == Cardinality(ContextMatches(ParentFiles))
        one == ParentFiles["a.yaml"][CHOOSE i \in ContextMatches(ParentFiles) : TRUE]
    IN /\ n >= 2 =>
            /\ result.err = "found multiple configmaps"
            /\ ~Called("cache.OpenRepository")
            /\ ~Called("repo.CreatePackageRevision")
            /\ ~Called("metadataStore.Create")
            /\ draft = NoDraft
            /\ StoresUnchanged
       /\ n = 0 =>
            /\ result.err # "found multiple configmaps"
            /\ result.config = req.parent \o "/" \o req.name
       /\ n = 1 =>
            /\ result.err # "found multiple configmaps"
            /\ result.config =
                 (IF PackagePathOf(one) = "" THEN "" ELSE PackagePathOf(one) \o "/")
                   \o req.parent \o "/" \o req.name
C21_Witness ==
  /\ ParentRead /\ req.fail = 0 /\ req.lifecycle = Draft
  /\ ParentFiles["a.yaml"] = <<ContextDoc(""), ContextDoc("foo/bar"), "# rendered">>
  /\ result.err = "found multiple configmaps"
  /\ Len(calls) = 2 /\ ~repo[req.name].exists

\* C22: the package path of a new revision is its package name when there
\* is no parent, <parent name>/<name> when the parent has no context
\* ConfigMap or one with an empty package-path, and
\* <parent package-path>/<parent name>/<name> when the parent's context
\* ConfigMap carries a non-empty package-path.
C22_PackagePath ==
  (IsCreate /\ (req.parent = NoName \/ ParentRead)
     /\ result.err # "found multiple configmaps") =>
    result.config =
      (IF req.parent = NoName THEN req.name
       ELSE IF \A i \in ContextMatches(ParentFiles) :
                 ParentFiles["a.yaml"][i] = ContextDoc("")
       THEN req.parent \o "/" \o req.name
       ELSE "foo/bar/" \o req.parent \o "/" \o req.name)
C22_Witness ==
  /\ ParentRead /\ result.err = NoError
  /\ req.tasks = <<CloneTask("base@v1")>>
  /\ ParentFiles["a.yaml"] = <<" ", ContextDoc("foo/bar"), "# rendered">>
  /\ result.config = "foo/bar/net/db"
  /\ repo["db"].exists

\* C23: a revision the engine presents carries the latest-revision label if
\* and only if the repository flagged it as latest; its other labels and its
\* annotations are those of the metadata record; presenting it does not add
\* the latest label to the label map of the metadata record.
C23_LatestLabelNotWrittenBack ==
  shown.done =>
    /\ (LatestPackageRevisionKey \in shown.labels.keys) = shown.record.latest
    /\ shown.labels.keys \ {LatestPackageRevisionKey} =
         shown.record.labels.keys \ {LatestPackageRevisionKey}
    /\ shown.annotations = shown.record.annotations
    /\ held.labels = shown.record.labels

\* C24: in an update in place of a Draft revision the mutations applied to
\* the draft are, in this order, the Update mutation (if an Update task was
\* appended), the Kptfile Patch mutation (if a projected field changed) and
\* one Render behind them; no Render stands anywhere but last, so an appended
\* Update with no Kptfile change applies Update, Render.
C24_OneTrailingRender ==
  (IsInPlace /\ OldRev.lifecycle = Draft) =>
    /\ \A i \in 1..(Len(Applied) - 1) :
         result.err = NoError => Applied[i].kind # "render"
    /\ result.err = NoError =>
         AppliedKinds \in {<<>>, <<"update", "render">>, <<"patch", "render">>,
                           <<"update", "patch", "render">>}
    /\ (result.err = NoError /\ Len(req.tasks) = Len(OldRev.tasks) + 1
          /\ req.gates = <<>> /\ req.conds = <<>>) =>
         AppliedKinds = <<"update", "render">>

\* the calls on the draft, in order, and the lifecycle a request asks for
\* (Create takes an unset lifecycle for Draft)
DraftOps == {"draft.UpdateResources", "draft.UpdateLifecycle", "draft.Close"}
DraftCalls == SelectSeq(calls, LAMBDA c : c.op \in DraftOps)
DesiredLifecycle ==
  IF IsCreate /\ req.lifecycle = Unset THEN Draft ELSE req.lifecycle

\* C25: in every successful Create, reclone-and-replay and update in place
\* the calls on the draft are zero or more UpdateResources, then exactly one
\* UpdateLifecycle with the desired lifecycle of the request, then exactly
\* one Close; nothing is called on the draft after Close.
C25_DraftCallOrder ==
  ((IsCreate \/ IsDraftUpdate) /\ result.err = NoError) =>
    LET n == Len(DraftCalls)
    IN /\ n >= 2
       /\ DraftCalls[n].op = "draft.Close"
       /\ DraftCalls[n - 1].op = "draft.UpdateLifecycle"
       /\ DraftCalls[n - 1].lifecycle = DesiredLifecycle
       /\ \A i \in 1..(n - 2) : DraftCalls[i].op = "draft.UpdateResources"
       /\ \A i \in 1..n : DraftCalls[i].ok
C25_Witness ==
  /\ IsUpdate /\ BothCloneAndDiffer(OldRev.tasks, req.tasks)
  /\ result.err = NoError /\ req.lifecycle = Proposed
  /\ Len(CallsOf("draft.UpdateResources")) >= 2
  /\ repo[req.name].lifecycle = Proposed

\* the calls of the pipeline, and the position of the one that failed
PipelineOps == {"mutation.Apply", "draft.UpdateResources"}
PipelineFailures == {i \in 1..Len(calls) : calls[i].op \in PipelineOps /\ ~calls[i].ok}
RecordedOk == SelectSeq(calls, LAMBDA c : c.op = "draft.UpdateResources" /\ c.ok)
OpenedOnStored == Called("repo.UpdatePackageRevision")

\* C26: when a mutation's Apply or the draft's UpdateResources fails, no
\* later mutation is applied and the engine call returns the error without
\* calling UpdateLifecycle or Close and without writing the metadata store;
\* the UpdateResources calls made before it are recorded only in the draft,
\* which stays unclosed.
C26_PipelineAborts ==
  \A k \in PipelineFailures :
    /\ k = Len(calls)
    /\ result.err # NoError
    /\ result.ret = NoRet
    /\ ~Called("draft.UpdateLifecycle") /\ ~Called("draft.Close")
    /\ \A i \in 1..Len(calls) :
         calls[i].op \notin {"metadataStore.Create", "metadataStore.Update",
                             "metadataStore.Delete"}
    /\ StoresUnchanged
    /\ draft.state = "open"
    /\ draft.tasks = (IF OpenedOnStored THEN OldRev.tasks ELSE <<>>)
                       \o [i \in 1..Len(RecordedOk) |-> RecordedOk[i].task]
    /\ (RecordedOk # <<>> => draft.files = RecordedOk[Len(RecordedOk)].files)
C26_Witness ==
  /\ IsCreate /\ PipelineFailures # {}
  /\ calls[Len(calls)].op = "draft.UpdateResources"
  /\ Len(RecordedOk) = 1 /\ Len(draft.tasks) = 1 /\ draft.state = "open"
  /\ ~repo[req.name].exists /\ result.err # NoError

\* the calls of the pipeline in order, the mutation an Apply call was made
\* on, and the file set the pipeline of a request starts from
Pipeline == SelectSeq(calls, LAMBDA c : c.op \in PipelineOps)
MutationOf(c) ==
  [Mutation(c.kind, c.task) EXCEPT !.res = IF c.kind = "replace" THEN req.res ELSE @]
BaseFiles == IF OpenedOnStored THEN OldRev.files ELSE EmptyFiles

\* C27: the pipeline is serial and chained: each mutation is applied to the
\* output of the one before it (the base file set for the first), and
\* draft.UpdateResources is called exactly once after each Apply, with that
\* mutation's output and audit task. Create and reclone-and-replay start
\* from the empty file set, the update in place and UpdatePackageResources
\* from the files of the stored revision.
C27_PipelineChained ==
  \A j \in 1..Len(Pipeline) :
    LET c == Pipeline[j]
    IN IF j % 2 = 1
       THEN /\ c.op = "mutation.Apply"
            /\ c.input = (IF j = 1 THEN BaseFiles ELSE Pipeline[j - 1].files)
            /\ (j > 1 => Pipeline[j - 1].ok)
            /\ (c.ok => j < Len(Pipeline))
            /\ (Apply(MutationOf(c), c.input).err => ~c.ok)
       ELSE /\ c.op = "draft.UpdateResources"
            /\ Pipeline[j - 1].ok
            /\ c.kind = Pipeline[j - 1].kind
            /\ c.files = Apply(MutationOf(Pipeline[j - 1]), Pipeline[j - 1].input).files
            /\ c.task = Apply(MutationOf(Pipeline[j - 1]), Pipeline[j - 1].input).task
C27_Witness ==
  /\ IsUpdate /\ IsInPlace /\ result.err = NoError
  /\ Len(Pipeline) = 4
  /\ Pipeline[1].kind = "update" /\ Pipeline[1].input = OldRev.files
  /\ OldRev.files # EmptyFiles
  /\ Pipeline[3].input = Pipeline[2].files /\ Pipeline[2].files # OldRev.files
  /\ repo[req.name].files = Pipeline[4].files

\* the tasks the mapping refuses, and the requests that reach the mapping
NeedsPayload == {TaskTypeInit, TaskTypeClone, TaskTypeUpdate, TaskTypeEdit, TaskTypeEval}
KnownTypes == NeedsPayload \cup {TaskTypePatch}
TaskRefused(tasks, i) ==
  \/ tasks[i].type \in NeedsPayload /\ tasks[i].payload = ""
  \/ tasks[i].type = TaskTypeUpdate /\ tasks[1].type # TaskTypeClone
  \/ tasks[i].type \notin KnownTypes
MapFails(tasks) == \E i \in 1..Len(tasks) : TaskRefused(tasks, i)
TasksMapped == CalledOk("repo.CreatePackageRevision")

\* C28: the mapping gives one mutation per task and decides every task: an
\* Init, Clone, Update, Edit or Eval task without its payload, an Update task
\* in a revision whose first task is not Clone, and a task of unknown type
\* fail; an Eval with image "render" maps to the Render mutation, every other
\* Eval to a function mutation. All tasks are mapped before any mutation is
\* applied: a mapping failure at any index leaves the draft without any
\* UpdateResources call.
C28_MappingTotal ==
  TasksMapped =>
    /\ MapFails(req.tasks) =>
         /\ result.err # NoError
         /\ ~Called("mutation.Apply") /\ ~Called("draft.UpdateResources")
         /\ draft.tasks = <<>> /\ draft.state = "open"
    /\ ~MapFails(req.tasks) =>
         /\ Applied # <<>>
         /\ IsPrefix(AppliedKinds, WithRender(ExpectedKinds(req.name, req.tasks)))
         /\ (result.err = NoError =>
               AppliedKinds = WithRender(ExpectedKinds(req.name, req.tasks)))
         /\ \A i \in 1..Len(Applied) :
              Applied[i].kind = "eval" => Applied[i].task.arg # "render"
C28_Witness ==
  /\ IsCreate /\ TasksMapped /\ result.err # NoError
  /\ req.tasks = <<CloneTask("base@v1"), UnknownTask>>
  /\ ~Called("mutation.Apply") /\ draft.state = "open"

\* C29: an update in place synthesises a Kptfile Patch mutation if and only
\* if the readiness gates or the conditions of the new object differ from
\* those of the stored Kptfile, the case of an empty list in the new object
\* against a non-empty one in the stored Kptfile included.
C29_PatchIffProjectionDiffers ==
  (IsInPlace /\ OldRev.lifecycle = Draft /\ result.err = NoError) =>
    ((\E i \in 1..Len(Applied) : Applied[i].kind = "patch")
       <=> (\/ req.gates # KptfileGates(OldRev.files["Kptfile"])
            \/ req.conds # KptfileConds(OldRev.files["Kptfile"])))

\* the objects of the new file set whose comments cannot be copied
CopyFailures(old, new) ==
  {pi \in Paths \X (1..2) :
     /\ IsYaml(pi[1]) /\ new[pi[1]] # Absent /\ pi[2] <= Len(new[pi[1]])
     /\ HasCommentedOriginal(old, new[pi[1]][pi[2]])
     /\ CopyCommentsFails(Commented(new[pi[1]][pi[2]]))}
HealCopyFails ==
  /\ IsResources /\ req.fail = 0 /\ Applied # <<>> /\ Applied[1].kind = "replace"
  /\ ~Unreadable(Applied[1].input) /\ ~Unreadable(req.res)
  /\ CopyFailures(Applied[1].input, req.res) # {}
\* the mutation succeeds on the objects as the client sent them and records
\* the diff
HealFailureSwallowed ==
  HealCopyFails =>
    /\ Applied[1].ok
    /\ ReplaceApplied
    /\ \A pi \in CopyFailures(ReplaceOld, req.res) :
         ReplaceResult[pi[1]][pi[2]] = req.res[pi[1]][pi[2]]
    /\ AuditsReplacement(ReplaceAudit.patches, ReplaceOld, ReplaceResult)

NothingToApply ==
  /\ IsInPlace /\ OldRev.lifecycle = Draft
  /\ req.tasks = OldRev.tasks
  /\ OldRev.files["Kptfile"] \in Kptfiles
  /\ req.gates = KptfileGates(OldRev.files["Kptfile"])
  /\ req.conds = KptfileConds(OldRev.files["Kptfile"])
OpsOf(cs) == [i \in 1..Len(cs) |-> cs[i].op]

\* C31: an update in place of a Draft revision with no task appended and no
\* projected Kptfile field changed applies an empty mutation list: no Render
\* is added and draft.UpdateResources is never called; the call opens the
\* draft, sets the new lifecycle, closes the draft and updates the metadata,
\* and leaves the files and the stored tasks as they were.
C31_EmptyUpdateAppliesNothing ==
  NothingToApply =>
    /\ ~Called("mutation.Apply") /\ ~Called("draft.UpdateResources")
    /\ repo[req.name].files = OldRev.files
    /\ repo[req.name].tasks = OldRev.tasks
    /\ result.err = NoError =>
         /\ OpsOf(calls) = <<"cache.OpenRepository", "repo.UpdatePackageRevision",
                             "oldPackage.GetKptfile", "oldPackage.GetResources",
                             "draft.UpdateLifecycle", "draft.Close",
                             "metadataStore.Update">>
         /\ calls[5].lifecycle = req.lifecycle
         /\ calls[7].labels = req.labels /\ calls[7].annotations = req.annotations
         /\ repo[req.name].lifecycle = req.lifecycle
C31_Witness ==
  /\ NothingToApply /\ result.err = NoError
  /\ req.lifecycle = Proposed /\ repo[req.name].lifecycle = Proposed
  /\ OldRev.tasks # <<>> /\ OldRev.files # EmptyFiles
  /\ ~Called("mutation.Apply")
  /\ metaStore[req.name].labels = req.labels

\* C32: the reject command requests lifecycle Draft for every package
\* revision named on the command line, in argument order, and goes on to the
\* next name after a request that failed; once its requests are sent it
\* returns an error if and only if at least one of them failed; with no
\* positional argument it fails in pre-run, before any request is sent.
C32_RejectEveryName ==
  /\ cli.phase = "ran" =>
       /\ Len(cli.sent) = Len(cli.args)
       /\ \A i \in 1..Len(cli.sent) :
            cli.sent[i].name = cli.args[i] /\ cli.sent[i].lifecycle = Draft
       /\ (cli.err # "") <=> (\E i \in 1..Len(cli.sent) : ~cli.sent[i].ok)
       /\ Len(cli.messages) = Cardinality({i \in 1..Len(cli.sent) : ~cli.sent[i].ok})
  /\ cli.phase = "preRunFailed" => (cli.sent = <<>> /\ cli.err # "")
  /\ (cli.args = <<>> /\ cli.phase # "start") => cli.phase = "preRunFailed"
  /\ cli.phase \in {"preRun", "ran"} => (cli.args # <<>> /\ cli.hasClient)
C32_Witness ==
  /\ cli.phase = "ran" /\ cli.args = <<"net", "db", "net">>
  /\ ~cli.sent[1].ok /\ cli.sent[2].ok /\ ~cli.sent[3].ok
  /\ cli.err # "" /\ Len(cli.messages) = 2

====
